---- MODULE Spec2Model ----
(***************************************************************************)
(* Model of the additive synthesis engine of primidi                       *)
(* (audio/web-audio-engine/additive-synth.js): the PartialPool, the voice  *)
(* table of AdditiveSynth (noteOn, noteOff, voice stealing, cleanupNote),  *)
(* the harmonic evolution scheduler and the setTimeout timers they start.  *)
(*                                                                         *)
(* Time is in milliseconds, gains are in units of 0.0001 (GainScale).      *)
(* An AudioParam is modelled by its automation timeline: a sequence of     *)
(* events [t, v, kind]; the first one is a setValueAtTime, the following   *)
(* ones are ramps that end at time t with value v.                         *)
(***************************************************************************)
EXTENDS Integers, Sequences, FiniteSets, TLC

\* ---------------------------------------------------------------- bounds
PoolSize == 4          \* number of partials in the pool (128 in the code)
MaxNoteId == 3         \* note ids are 1..MaxNoteId
MaxCalls == 3          \* calls of noteOn, noteOff and updateNoteState in a run
FewCandidates == 2     \* eligible configs of a profile with few harmonics
ManyCandidates == 6    \* eligible configs of a profile with many harmonics
MaxTime == 820         \* the clock stops advancing after MaxTime ms
CallPeriod == 200      \* the callers call at multiples of CallPeriod ms
SlowDecay == 50        \* baseState.slowDecay in ms (8000 by default), shortened so
                       \* that a voice decays to silence before MaxTime

\* ------------------------------------------------------ program constants
maxPartials == 12          \* this.maxPartials
initialPoolSize == 128          \* new PartialPool(128, ...)
minAdaptivePartials == 6   \* Math.max(6, ...) in noteOn
GainScale == 10000         \* gain 1.0
minAmp == 1                \* 0.0001
quietGain == 10            \* 0.001 : ramp floor of noteOff and cleanupNote
decayThreshold == 5        \* 0.0005 : maxPartialAmp < 0.0005
minElapsed == 500          \* elapsed > 0.5
tickPeriod == 200          \* setInterval(..., 200)
evolutionRamp == 200       \* now + 0.2
decayCheckDelay == 200     \* setTimeout(..., 200) of the deferred check
cleanupGrace == 100        \* (releaseTime * 1000) + 100
disconnectDelay == 15      \* setTimeout(..., 15) in cleanupNote
cleanupRamp == 10          \* now + 0.01 in cleanupNote
minRelease == 100          \* Math.max(0.1, releaseTime)
linearBelow == 150         \* safeReleaseTime < 0.15
stealRelease == 50         \* this.noteOff(quietestNoteId, 0.05, false)
fullVoiceGain == 9900      \* masterGainValue < 0.99

Partials == 0 .. (PoolSize - 1)
NoteIds == 1 .. MaxNoteId
Null == -1                 \* null partial / null note id
NoNote == [absent |-> TRUE]
NoTimer == [absent |-> TRUE]
Velocities == {100}
CandidateCounts == {FewCandidates, ManyCandidates}
KeyStates == {<<TRUE, FALSE>>, <<FALSE, TRUE>>}   \* <<keyDown, pedalDown>>
ReleaseTimes == {50, 500}  \* releaseTime arguments of noteOff, in ms

VARIABLES
    inUse,            \* pool[i].inUse
    available,        \* PartialPool.available (a stack of indices)
    gain,             \* pool[i].gain.gain : automation timeline
    activeNotes,      \* AdditiveSynth.activeNotes : noteId -> voice
    noteOrder,        \* insertion order of the keys of activeNotes
    pendingCleanups,  \* AdditiveSynth.pendingCleanups : noteId -> timer
    cleanupTimers,    \* the live setTimeout timers of noteOff and of the tick, by noteId
    releaseTimers,    \* the 15 ms timers of cleanupNote: partial -> due times
    now,              \* audioCtx.currentTime, in ms
    nextTick,         \* due time of the setInterval tick
    calls,            \* history: number of calls made by the callers
    highest,          \* history: the highest note id passed to noteOn
    reused,           \* history: noteOn was called with an id that was active
    released,         \* history: ids whose current voice got a noteOff(id, r, false)
    probe,            \* history: a noteOn / noteOff / cleanup of one fresh id
    selection,        \* a call of selectPartials: its arguments and its result
    window,           \* the globals that SpectralProfile looks up on window
    spectralCache,    \* AdditiveSynth.spectralCache : freqKey -> SpectralProfile
    profileLog,       \* history: the calls of getSpectralProfile
    envelope,         \* a call of getPianoEnvelopeDecayTimes: the settings it reads, its
                      \* arguments and its result
    stolenAt,         \* history: when a voice was first stolen, and its partials then
    wrapper,          \* PolySynthWrapper: activeVoices, noteIdCounter, noteEnvelopes,
                      \* sustainPedalActive
    main,             \* the main script: sustainPedalActive, activeNotes,
                      \* physicallyHeldNotes, sustainedNotes, sustainDecayAutomations,
                      \* and the live releaseTimeout timers of startSustainDecay
    issued,           \* history: the calls that the last handler made on the synth
    last              \* history: the operation just executed and its outcome

vars == <<inUse, available, gain, activeNotes, noteOrder, pendingCleanups, cleanupTimers,
          releaseTimers, now, nextTick, calls, highest, reused, released, probe,
          selection, window, spectralCache, profileLog, envelope, stolenAt,
          wrapper, main, issued, last>>

profileVars == <<window, spectralCache, profileLog>>
envelopeVars == <<envelope>>
stealVars == <<stolenAt>>
wrapperVars == <<wrapper, main, issued>>
otherVars == <<envelopeVars, stealVars, wrapperVars>>

\* ------------------------------------------------------------- utilities
Max(a, b) == IF a >= b THEN a ELSE b
Min(a, b) == IF a <= b THEN a ELSE b
Abs(a) == IF a >= 0 THEN a ELSE 0 - a
Range(s) == {s[i] : i \in 1 .. Len(s)}

RECURSIVE SumSeq(_)
SumSeq(s) == IF s = <<>> THEN 0 ELSE Head(s) + SumSeq(Tail(s))

RECURSIVE MaxSeq(_)
\* Math.max(...s); -1 stands for -Infinity of the empty list (gains are >= 0)
MaxSeq(s) == IF s = <<>> THEN -1 ELSE Max(Head(s), MaxSeq(Tail(s)))

\* ------------------------------------------------------------ AudioParam
Ev(t, v, kind) == [t |-> t, v |-> v, kind |-> kind]

\* param.value = v together with cancelScheduledValues(0)
ParamReset(v) == <<Ev(0, v, "set")>>

\* value between two events: ramps are monotone from the value of the
\* previous event to the value of their own event (interpolated linearly)
Interp(a, b, t) ==
    IF b.v >= a.v
    THEN a.v + (((b.v - a.v) * (t - a.t)) \div (b.t - a.t))
    ELSE a.v - (((a.v - b.v) * (t - a.t)) \div (b.t - a.t))

\* param.value read at time t
ParamValue(p, t) ==
    IF t >= p[Len(p)].t THEN p[Len(p)].v
    ELSE IF t < p[1].t THEN p[1].v
    ELSE LET i == CHOOSE j \in 1 .. (Len(p) - 1) : p[j].t <= t /\ t < p[j + 1].t
         IN Interp(p[i], p[i + 1], t)

\* cancelScheduledValues(t); setValueAtTime(v, t)
ParamAnchor(v, t) == <<Ev(t, v, "set")>>

\* linearRampToValueAtTime / exponentialRampToValueAtTime appended to p
ParamRamp(p, v, t, kind) == Append(p, Ev(t, v, kind))

\* ------------------------------------------------------------ PartialPool
\* The pool and the synth are passed to the operators below as one record S
\* with the fields inUse, available, gain, activeNotes, noteOrder,
\* pendingCleanups and releaseTimers.

\* acquire() that forgets to pop the index off the free list
acquireWithoutPop(S) ==
    IF Len(S.available) = 0
    THEN [S |-> S, partial |-> Null]
    ELSE LET idx == S.available[Len(S.available)]
         IN [S |-> [S EXCEPT !.inUse[idx] = TRUE, !.gain[idx] = ParamReset(0)],
             partial |-> idx]

\* PartialPool.acquire(): [S |-> the synth afterwards, partial |-> index or Null]
acquire(S) ==
    IF Len(S.available) = 0
    THEN [S |-> S, partial |-> Null]
    ELSE LET idx == S.available[Len(S.available)]
         IN [S |-> [S EXCEPT !.available = SubSeq(S.available, 1, Len(S.available) - 1),
                             !.inUse[idx] = TRUE,
                             !.gain[idx] = ParamReset(0)],
             partial |-> idx]

\* release() without the inUse guard
releaseUnguarded(S, partial) ==
    IF partial = Null
    THEN S
    ELSE [S EXCEPT !.inUse[partial] = FALSE,
                   !.gain[partial] = ParamReset(0),
                   !.available = Append(S.available, partial)]

\* PartialPool.release(partial)
release(S, partial) ==
    IF partial = Null \/ ~S.inUse[partial]
    THEN S
    ELSE [S EXCEPT !.inUse[partial] = FALSE,
                   !.gain[partial] = ParamReset(0),
                   !.available = Append(S.available, partial)]

\* ------------------------------------------------------- spectral profile
\* exp(-0.15 h), h = 1..32, and h^0.7, h = 1..12, scaled by 10000 and 1000
expRolloff == <<8607, 7408, 6376, 5488, 4724, 4066, 3499, 3012, 2592, 2231, 1920, 1653,
                1423, 1225, 1054, 907, 781, 672, 578, 498, 429, 369, 317, 273, 235, 202,
                174, 150, 129, 111, 96, 82>>
pow07 == <<1000, 1625, 2158, 2639, 3085, 3505, 3905, 4287, 4656, 5012, 5358, 5695>>

\* calcAmplitude(harmonicNum, velocity) without the optional window models:
\* exp(-0.15 h) * (1 + 0.3 v/127), clamped to [0, 1]
calcAmplitude(h, velocity) ==
    Max(0, Min(GainScale, (expRolloff[h] * (1270 + 3 * Min(127, Max(0, velocity)))) \div 1270))

\* calcDecayTime(harmonicNum, velocity, 0.3), in ms
calcDecayTime(h, velocity) ==
    IF h <= 6
    THEN (300 * (254 + velocity) * 1000) \div (254 * pow07[h])
    ELSE (300 * (1270 + 8 * velocity) * 216) \div (1270 * h * h * h)

\* the config of rank j of selectPartials: with the amplitudes above the
\* loudest j-th config is harmonic j
config(j, velocity) ==
    [harmonicNum |-> j, amp |-> calcAmplitude(j, velocity),
     decay |-> calcDecayTime(j, velocity)]

\* the scaled limit without the Math.max(6, ...) around it
adaptiveWithoutFloor(poolAvailable, poolTotal) ==
    IF 10 * (poolTotal - poolAvailable) > 7 * poolTotal
    THEN (2 * 10 * maxPartials * poolAvailable + 3 * poolTotal - 1) \div (2 * 3 * poolTotal)
    ELSE maxPartials

\* adaptiveMaxPartials of noteOn: round(maxPartials * (1 - (usage - 0.7) / 0.3))
\* is round(40 * available / total) for maxPartials = 12. In doubles 0.7 and
\* 0.3 are a little below 7/10 and 3/10, and for a pool of 128 (and of
\* PoolSize) partials the only half-way point (24 free of 128: 7.5) evaluates
\* to 7.499999999999998, which Math.round takes down: halves round down
adaptiveMaxPartials(poolAvailable, poolTotal) ==
    IF 10 * (poolTotal - poolAvailable) > 7 * poolTotal
    THEN Max(minAdaptivePartials,
             (2 * 10 * maxPartials * poolAvailable + 3 * poolTotal - 1) \div (2 * 3 * poolTotal))
    ELSE maxPartials

\* applyEnvelope(gainNode, velocity, decayTime, startTime): the timeline
applyEnvelope(velocity, decayTime, t) ==
    LET attackTime == 10 + ((20 * (127 - velocity)) \div 127)
        velocityScale == (velocity * velocity * GainScale) \div (127 * 127)
        attackTarget == Max(quietGain, velocityScale)
        sustainTarget == Max(quietGain,
                             ((3 * 127 + 2 * velocity) * velocityScale) \div (10 * 127))
    IN ParamRamp(ParamRamp(ParamAnchor(quietGain, t), attackTarget, t + attackTime, "exp"),
                 sustainTarget, t + attackTime + decayTime, "exp")

\* ------------------------------------------------------------------ voices
Voice(partials, amps, velocity, keyDown, pedalDown, t) ==
    [partials |-> partials, initialAmplitudes |-> amps, velocity |-> velocity,
     startTime |-> t, keyDown |-> keyDown, pedalDown |-> pedalDown,
     gainNode |-> ParamReset(GainScale)]

ActiveIds(S) == {id \in NoteIds : S.activeNotes[id] # NoNote}

RemoveId(order, id) == SelectSeq(order, LAMBDA x : x # id)

\* the values of the partial gains of a voice at time t
PartialGains(S, note, t) ==
    [k \in 1 .. Len(note.partials) |-> ParamValue(S.gain[note.partials[k]], t)]

\* a release envelope that lasts releaseTime, without the 0.1 s minimum
releaseRampUnclamped(p, releaseTime, t) ==
    ParamRamp(ParamAnchor(ParamValue(p, t), t), quietGain, t + releaseTime,
              IF releaseTime < linearBelow THEN "lin" ELSE "exp")

\* the release ramp of noteOff on one AudioParam
releaseRamp(p, releaseTime, t) ==
    LET safeReleaseTime == Max(minRelease, releaseTime)
    IN ParamRamp(ParamAnchor(ParamValue(p, t), t), quietGain, t + safeReleaseTime,
                 IF safeReleaseTime < linearBelow THEN "lin" ELSE "exp")

\* the ramp-down of cleanupNote on one partial gain
cleanupRampDown(p, t) ==
    IF ParamValue(p, t) > quietGain
    THEN ParamRamp(ParamAnchor(ParamValue(p, t), t), quietGain, t + cleanupRamp, "exp")
    ELSE ParamAnchor(0, t)

\* clearTimeout(timeoutId): the timer leaves the live timers, if it is one
RECURSIVE clearTimeout(_, _)
clearTimeout(timeouts, releaseTimeout) ==
    IF timeouts = <<>> THEN <<>>
    ELSE IF Head(timeouts) = releaseTimeout THEN Tail(timeouts)
    ELSE <<Head(timeouts)>> \o clearTimeout(Tail(timeouts), releaseTimeout)

\* cleanupNote(noteId): every partial gets its own disconnect-and-release
\* timer, the voice leaves activeNotes at once
cleanupNote(S, noteId, t) ==
    LET note == S.activeNotes[noteId]
    IN IF note = NoNote THEN S
       ELSE [S EXCEPT
               !.pendingCleanups[noteId] = NoTimer,
               !.cleanupTimers[noteId] =
                           clearTimeout(S.cleanupTimers[noteId], S.pendingCleanups[noteId]),
               !.gain = [i \in DOMAIN S.gain |->
                           IF i \in Range(note.partials)
                           THEN cleanupRampDown(S.gain[i], t) ELSE S.gain[i]],
               !.releaseTimers = [i \in DOMAIN S.releaseTimers |->
                           S.releaseTimers[i] \o
                           [k \in 1 .. Cardinality({j \in 1 .. Len(note.partials) :
                                                     note.partials[j] = i})
                              |-> t + disconnectDelay]],
               !.activeNotes[noteId] = NoNote,
               !.noteOrder = RemoveId(S.noteOrder, noteId)]

\* a noteOff that schedules its cleanup without cancelling the pending one
noteOffKeepsTimer(S, noteId, releaseTime, immediateCleanup, t) ==
    LET note == S.activeNotes[noteId]
        masterGainValue == ParamValue(note.gainNode, t)
        ramped == [S EXCEPT
               !.gain = [i \in DOMAIN S.gain |->
                           IF i \in Range(note.partials)
                           THEN releaseRamp(S.gain[i], releaseTime, t) ELSE S.gain[i]],
               !.activeNotes[noteId].gainNode =
                           IF masterGainValue < fullVoiceGain
                           THEN releaseRamp(note.gainNode, releaseTime, t)
                           ELSE note.gainNode]
    IN IF note = NoNote THEN S
       ELSE IF immediateCleanup THEN cleanupNote(ramped, noteId, t)
       ELSE [ramped EXCEPT
               !.pendingCleanups[noteId] =
                   [kind |-> "noteOff", due |-> t + releaseTime + cleanupGrace],
               !.cleanupTimers[noteId] =
                   Append(ramped.cleanupTimers[noteId],
                          [kind |-> "noteOff", due |-> t + releaseTime + cleanupGrace])]

\* noteOff(noteId, releaseTime, immediateCleanup); releaseTime in ms
noteOff(S, noteId, releaseTime, immediateCleanup, t) ==
    LET note == S.activeNotes[noteId]
        masterGainValue == ParamValue(note.gainNode, t)
        ramped == [S EXCEPT
               !.pendingCleanups[noteId] = NoTimer,
               !.cleanupTimers[noteId] =
                           clearTimeout(S.cleanupTimers[noteId], S.pendingCleanups[noteId]),
               !.gain = [i \in DOMAIN S.gain |->
                           IF i \in Range(note.partials)
                           THEN releaseRamp(S.gain[i], releaseTime, t) ELSE S.gain[i]],
               !.activeNotes[noteId].gainNode =
                           IF masterGainValue < fullVoiceGain
                           THEN releaseRamp(note.gainNode, releaseTime, t)
                           ELSE note.gainNode]
    IN IF note = NoNote THEN S
       ELSE IF immediateCleanup THEN cleanupNote(ramped, noteId, t)
       ELSE [ramped EXCEPT
               !.pendingCleanups[noteId] =
                   [kind |-> "noteOff", due |-> t + releaseTime + cleanupGrace],
               !.cleanupTimers[noteId] =
                   Append(ramped.cleanupTimers[noteId],
                          [kind |-> "noteOff", due |-> t + releaseTime + cleanupGrace])]

\* updateNoteState that also clears the pending cleanup of the voice
updateNoteStateClearsTimer(S, noteId, keyDown, pedalDown) ==
    IF S.activeNotes[noteId] = NoNote THEN S
    ELSE [S EXCEPT !.activeNotes[noteId].keyDown = keyDown,
                   !.activeNotes[noteId].pedalDown = pedalDown,
                   !.pendingCleanups[noteId] = NoTimer,
                   !.cleanupTimers[noteId] =
                       clearTimeout(S.cleanupTimers[noteId], S.pendingCleanups[noteId])]

\* updateNoteState that stores the flags even when the id has no voice
updateNoteStateUnchecked(S, noteId, keyDown, pedalDown) ==
    IF S.activeNotes[noteId] = NoNote
    THEN [S EXCEPT !.activeNotes[noteId] = [keyDown |-> keyDown, pedalDown |-> pedalDown]]
    ELSE [S EXCEPT !.activeNotes[noteId].keyDown = keyDown,
                   !.activeNotes[noteId].pedalDown = pedalDown]

\* updateNoteState(noteId, keyDown, pedalDown)
updateNoteState(S, noteId, keyDown, pedalDown) ==
    IF S.activeNotes[noteId] = NoNote THEN S
    ELSE [S EXCEPT !.activeNotes[noteId].keyDown = keyDown,
                   !.activeNotes[noteId].pedalDown = pedalDown]

\* ----------------------------------------------------------- voice stealing
\* stealScore = effectiveVolume / (1 + age * 0.1) as the fraction num / den:
\* num = effectiveVolume = masterGain * avgPartialGain (rounded down to the
\* gain unit), den = 1 + age * 0.1 = (10000 + ageMs) / 10000
scoreNum(S, note, t) ==
    (ParamValue(note.gainNode, t)
       * (SumSeq(PartialGains(S, note, t)) \div Len(note.partials))) \div GainScale

scoreDen(note, t) == 10000 + (t - note.startTime)

\* a comparison that keeps the louder, younger voice
scoreGreater(S, a, b, t) ==
    scoreNum(S, a, t) * scoreDen(b, t) > scoreNum(S, b, t) * scoreDen(a, t)

\* stealScore(a) < stealScore(b)
scoreLess(S, a, b, t) ==
    scoreNum(S, a, t) * scoreDen(b, t) < scoreNum(S, b, t) * scoreDen(a, t)

\* a candidate test that forgets the keyDown flag
stealEligibleHeldToo(note) == Len(note.partials) > 0

\* only notes that are not physically held and have partials are candidates
stealEligible(note) == ~note.keyDown /\ Len(note.partials) > 0

RECURSIVE quietestFrom(_, _, _, _)
\* the loop over activeNotes of stealVoiceFromQuietestSustainedNote:
\* best is quietestNoteId so far (Null: quietestVolume = Infinity)
quietestFrom(S, order, best, t) ==
    IF order = <<>> THEN best
    ELSE LET noteId == Head(order)
             note == S.activeNotes[noteId]
         IN IF stealEligible(note)
               /\ (best = Null \/ scoreLess(S, note, S.activeNotes[best], t))
            THEN quietestFrom(S, Tail(order), noteId, t)
            ELSE quietestFrom(S, Tail(order), best, t)

\* stealVoiceFromQuietestSustainedNote(): [S, stolen |-> noteId or Null]
stealVoiceFromQuietestSustainedNote(S, t) ==
    LET quietestNoteId == quietestFrom(S, S.noteOrder, Null, t)
    IN IF quietestNoteId # Null
       THEN [S |-> noteOff(S, quietestNoteId, stealRelease, FALSE, t),
             stolen |-> quietestNoteId]
       ELSE [S |-> S, stolen |-> Null]

\* ------------------------------------------------------------------ noteOn
RECURSIVE acquireLoop(_, _, _, _, _)
\* the loop "for (const config of partialConfigs)" of noteOn, from config j on.
\* L = [S, partials, amps, stolen]: the synth, the partials and initial
\* amplitudes collected so far, the ids of the voices stolen so far
acquireLoop(L, j, n, velocity, t) ==
    IF j > n THEN L
    ELSE
      LET cfg == config(j, velocity)
          first == acquire(L.S)
          stolen == stealVoiceFromQuietestSustainedNote(L.S, t)
          second == acquire(stolen.S)
          take(a, ids) ==
              acquireLoop([S |-> [a.S EXCEPT !.gain[a.partial] =
                                           applyEnvelope(velocity, cfg.decay, t)],
                           partials |-> Append(L.partials, a.partial),
                           amps |-> Append(L.amps, [harmonicNum |-> cfg.harmonicNum,
                                                    initialAmp |-> cfg.amp]),
                           stolen |-> ids],
                          j + 1, n, velocity, t)
      IN IF first.partial # Null THEN take(first, L.stolen)
         ELSE IF stolen.stolen # Null
              THEN IF second.partial # Null
                   THEN take(second, Append(L.stolen, stolen.stolen))
                   ELSE [L EXCEPT !.S = stolen.S,
                                  !.stolen = Append(L.stolen, stolen.stolen)]
              ELSE L

\* noteOn that asks for a partial for every candidate, whatever the limit
noteOnUnlimited(S, noteId, candidates, velocity, keyDown, pedalDown, t) ==
    LET limit == adaptiveMaxPartials(Len(S.available), Cardinality(DOMAIN S.inUse))
        L == acquireLoop([S |-> S, partials |-> <<>>, amps |-> <<>>, stolen |-> <<>>],
                         1, candidates, velocity, t)
    IN [S |-> [L.S EXCEPT
                 !.activeNotes[noteId] =
                     Voice(L.partials, L.amps, velocity, keyDown, pedalDown, t),
                 !.noteOrder = IF noteId \in Range(L.S.noteOrder)
                               THEN L.S.noteOrder
                               ELSE Append(L.S.noteOrder, noteId)],
        limit |-> limit,
        requested |-> candidates,
        stolen |-> L.stolen]

\* noteOn(noteId, frequency, velocity, keyDown, pedalDown); candidates is the
\* number of configs of the profile that pass the filter of selectPartials.
\* [S |-> the synth afterwards, limit, requested, stolen]; the domain of
\* inUse is this.partialPool.pool
noteOn(S, noteId, candidates, velocity, keyDown, pedalDown, t) ==
    LET limit == adaptiveMaxPartials(Len(S.available), Cardinality(DOMAIN S.inUse))
        requested == Min(candidates, limit)
        L == acquireLoop([S |-> S, partials |-> <<>>, amps |-> <<>>, stolen |-> <<>>],
                         1, requested, velocity, t)
    IN [S |-> [L.S EXCEPT
                 !.activeNotes[noteId] =
                     Voice(L.partials, L.amps, velocity, keyDown, pedalDown, t),
                 !.noteOrder = IF noteId \in Range(L.S.noteOrder)
                               THEN L.S.noteOrder
                               ELSE Append(L.S.noteOrder, noteId)],
        limit |-> limit,
        requested |-> requested,
        stolen |-> L.stolen]

\* --------------------------------------------- harmonic evolution scheduler
\* getPianoEnvelopeDecayTimes(...).slowDecay for the key and pedal state, in ms
slowDecayOf(keyDown, pedalDown) ==
    IF pedalDown /\ keyDown THEN SlowDecay
    ELSE IF pedalDown THEN (SlowDecay * 7) \div 10
    ELSE IF keyDown THEN (SlowDecay * 9) \div 10
    ELSE (SlowDecay * 5) \div 10

RECURSIVE halve(_, _)
\* v / 2^k
halve(v, k) == IF k = 0 \/ v = 0 THEN v ELSE halve(v \div 2, k - 1)

\* Math.exp(-elapsed / decayTime) times GainScale: 2^(-elapsed / halfLife)
\* with halfLife = ln(2) * decayTime, interpolated linearly inside a half-life
expDecay(elapsed, decayTime) ==
    LET halfLife == Max(1, (decayTime * 693) \div 1000)
        whole == halve(GainScale, elapsed \div halfLife)
    IN (whole * (2 * halfLife - (elapsed % halfLife))) \div (2 * halfLife)

\* the uniform decay rate of the harmonics 1..16 of a voice at time t
uniformDecay(note, t) ==
    expDecay(t - note.startTime, slowDecayOf(note.keyDown, note.pedalDown))

\* harmonicRates[harmonicNum] || 1.0: the array has the entries 1..16, and
\* Math.exp of a finite argument above -745 is positive, so a rate that
\* rounds to 0 here is still truthy in the code
harmonicRate(rate, harmonicNum) ==
    IF harmonicNum \in 1 .. 16 THEN rate ELSE GainScale

\* clampedAmp of one partial
clampedAmp(info, rate) ==
    Max(minAmp, (info.initialAmp * harmonicRate(rate, info.harmonicNum)) \div GainScale)

\* a hysteresis test that lets every change through
significantAlways(currentValue, target) == TRUE

\* changeRatio > 0.05
significantChange(currentValue, target) ==
    Abs(currentValue - target) * 100 > 5 * Max(currentValue, minAmp)

\* the update of one partial gain by a tick
evolveGain(p, info, rate, t) ==
    LET currentValue == ParamValue(p, t)
        target == clampedAmp(info, rate)
    IN IF significantChange(currentValue, target)
       THEN ParamRamp(ParamAnchor(Max(minAmp, currentValue), t), target,
                      t + evolutionRamp, "exp")
       ELSE p

\* the partial gains after the tick has visited the voice
evolveVoice(S, note, rate, t) ==
    [i \in DOMAIN S.gain |->
        IF \E k \in 1 .. Len(note.partials) :
              note.partials[k] = i /\ k <= Len(note.initialAmplitudes)
        THEN LET k == CHOOSE k \in 1 .. Len(note.partials) : note.partials[k] = i
             IN evolveGain(S.gain[i], note.initialAmplitudes[k], rate, t)
        ELSE S.gain[i]]

\* a decay detection that takes a voice without partials for a sounding one
decayedWithPartials(S, note, t) ==
    /\ note.partials # <<>>
    /\ MaxSeq(PartialGains(S, note, t)) < decayThreshold
    /\ t - note.startTime > minElapsed

\* maxPartialAmp < 0.0005 && elapsed > 0.5
decayed(S, note, t) ==
    MaxSeq(PartialGains(S, note, t)) < decayThreshold /\ t - note.startTime > minElapsed

RECURSIVE evolveFrom(_, _, _)
\* the loop over activeNotes of updateHarmonicEvolution
evolveFrom(S, order, t) ==
    IF order = <<>> THEN S
    ELSE LET noteId == Head(order)
             note == S.activeNotes[noteId]
             S1 == [S EXCEPT !.gain = evolveVoice(S, note, uniformDecay(note, t), t)]
             S2 == IF decayed(S1, note, t) /\ S1.pendingCleanups[noteId] = NoTimer
                   THEN [S1 EXCEPT
                           !.pendingCleanups[noteId] =
                               [kind |-> "decay", due |-> t + decayCheckDelay],
                           !.cleanupTimers[noteId] =
                               Append(S1.cleanupTimers[noteId],
                                      [kind |-> "decay", due |-> t + decayCheckDelay])]
                   ELSE S1
         IN evolveFrom(S2, Tail(order), t)

updateHarmonicEvolution(S, t) == evolveFrom(S, S.noteOrder, t)

\* a release timer that fires without destroying the voice
noteOffTimeoutKeepsVoice(S, noteId, t) ==
    [S EXCEPT !.pendingCleanups[noteId] = NoTimer]

\* the callback of the cleanup timer of noteOff
noteOffTimeout(S, noteId, t) ==
    [cleanupNote(S, noteId, t) EXCEPT !.pendingCleanups[noteId] = NoTimer]

\* a deferred check that destroys the voice without looking at it again
decayTimeoutUnchecked(S, noteId, t) ==
    [cleanupNote(S, noteId, t) EXCEPT !.pendingCleanups[noteId] = NoTimer]

\* the callback of the deferred check of the scheduler
decayTimeout(S, noteId, t) ==
    LET note == S.activeNotes[noteId]
        checked == IF note # NoNote /\ MaxSeq(PartialGains(S, note, t)) < quietGain
                   THEN cleanupNote(S, noteId, t) ELSE S
    IN [checked EXCEPT !.pendingCleanups[noteId] = NoTimer]

\* a disconnect callback that forgets to hand the partial back to the pool
disconnectWithoutRelease(S, partial) ==
    [S EXCEPT !.releaseTimers[partial] = Tail(S.releaseTimers[partial])]

\* the callback of the disconnect timer of cleanupNote for one partial
disconnectTimeout(S, partial) ==
    [release(S, partial) EXCEPT !.releaseTimers[partial] = Tail(S.releaseTimers[partial])]

\* ----------------------------------------------------------------- actions
Cur == [inUse |-> inUse, available |-> available, gain |-> gain,
        activeNotes |-> activeNotes, noteOrder |-> noteOrder,
        pendingCleanups |-> pendingCleanups, cleanupTimers |-> cleanupTimers,
        releaseTimers |-> releaseTimers]

Becomes(S) ==
    /\ inUse' = S.inUse
    /\ available' = S.available
    /\ gain' = S.gain
    /\ activeNotes' = S.activeNotes
    /\ noteOrder' = S.noteOrder
    /\ pendingCleanups' = S.pendingCleanups
    /\ cleanupTimers' = S.cleanupTimers
    /\ releaseTimers' = S.releaseTimers

\* getActiveNoteCount()
getActiveNoteCount(S) == Cardinality(ActiveIds(S))

RECURSIVE countPartials(_, _)
countPartials(S, order) ==
    IF order = <<>> THEN 0
    ELSE Len(S.activeNotes[Head(order)].partials) + countPartials(S, Tail(order))

\* getActivePartialCount()
getActivePartialCount(S) == countPartials(S, S.noteOrder)

PartsOf(S, id) ==
    IF S.activeNotes[id] = NoNote THEN {} ELSE Range(S.activeNotes[id].partials)

Op(op, id, parts) ==
    [op |-> op, id |-> id, parts |-> parts, limit |-> 0, requested |-> 0, free0 |-> 0,
     got |-> 0, stolen |-> <<>>, stolenHeld |-> FALSE, immediate |-> FALSE]

NoProbe == [phase |-> "idle", id |-> Null, notes0 |-> 0, partials0 |-> 0, quiet |-> TRUE]

\* the probe after the ids in gone have lost their voice (stolen or cleaned up)
Disturb(pr, gone) ==
    IF pr.phase \in {"on", "off"} /\ gone \ {pr.id} # {}
    THEN [pr EXCEPT !.quiet = FALSE] ELSE pr

\* the synth after construction, with a pool of size partials
SynthInitWith(size) ==
    /\ inUse = [i \in 0 .. (size - 1) |-> FALSE]
    /\ available = [i \in 1 .. size |-> i - 1]
    /\ gain = [i \in 0 .. (size - 1) |-> ParamReset(0)]
    /\ activeNotes = [id \in NoteIds |-> NoNote]
    /\ noteOrder = <<>>
    /\ pendingCleanups = [id \in NoteIds |-> NoTimer]
    /\ cleanupTimers = [id \in NoteIds |-> <<>>]
    /\ releaseTimers = [i \in 0 .. (size - 1) |-> <<>>]
    /\ now = 0
    /\ nextTick = tickPeriod
    /\ calls = 0
    /\ highest = 0
    /\ reused = FALSE
    /\ released = {}
    /\ probe = NoProbe
    /\ last = Op("init", Null, {})

SynthInit == SynthInitWith(PoolSize)

\* no call of selectPartials on its own
NoSelection == [configs |-> <<>>, maxPartials |-> 0, result |-> <<>>, called |-> FALSE]

\* ------------------------------------------------ spectral profile cache
\* fundamentals in tenths of Hz: A0, A2, three around 440 Hz, A6, C8
ProfileFreqs == {275, 1100, 4396, 4400, 4405, 17600, 41860}

\* Math.log2(fundamentalFreq / 27.5), in thousandths
log2OverA0(f) ==
    CASE f = 275 -> 0 [] f = 1100 -> 2000 [] f = 4396 -> 3999 [] f = 4400 -> 4000
      [] f = 4405 -> 4002 [] f = 17600 -> 6000 [] f = 41860 -> 7250

\* 0.08 * (0.35 / 0.08) ^ (normalized ^ 1.2), normalized the place of f
\* between 27.5 and 4186 Hz, in ten-thousandths
alphaOfPitch(f) ==
    CASE f = 275 -> 800 [] f = 1100 -> 811 [] f = 4396 -> 877 [] f = 4400 -> 877
      [] f = 4405 -> 877 [] f = 17600 -> 1340 [] f = 41860 -> 3500

\* what window holds: the two functions of the pitch-dependent rolloff
\* module (it exports both) and physicsSettings.pitchHarmonicRolloff
Windows ==
    {[getBalancedHarmonicCount |-> TRUE, getMaxAudibleHarmonics |-> TRUE,
      pitchHarmonicRolloff |-> TRUE],
     [getBalancedHarmonicCount |-> TRUE, getMaxAudibleHarmonics |-> TRUE,
      pitchHarmonicRolloff |-> FALSE],
     [getBalancedHarmonicCount |-> FALSE, getMaxAudibleHarmonics |-> FALSE,
      pitchHarmonicRolloff |-> TRUE]}

\* calculatePitchDependentRolloff(fundamentalFreq), in ten-thousandths
calculatePitchDependentRolloff(f, w) ==
    IF ~w.pitchHarmonicRolloff THEN 1500 ELSE alphaOfPitch(f)

\* getMaxAudibleHarmonics(fundamentalFreq, 0.01): -ln(0.01) = 4.6052
getMaxAudibleHarmonics(f, w) ==
    LET alpha == calculatePitchDependentRolloff(f, w)
        maxHarmonics == (46052 + alpha - 1) \div alpha
    IN Max(2, Min(20, maxHarmonics))

\* getBalancedHarmonicCount(fundamentalFreq): log2(4186 / 27.5) = 7.250
getBalancedHarmonicCount(f, w) ==
    IF ~w.pitchHarmonicRolloff THEN getMaxAudibleHarmonics(f, w)
    ELSE LET span == 7250
             logFreq == Max(0, Min(span, log2OverA0(f)))
             balancedCount == (2 * 12 * span - 2 * (12 - 4) * logFreq + span) \div (2 * span)
         IN Max(4, Min(12, balancedCount))

\* the local maxPartials of computeConfigsForVelocity: the number of
\* harmonics of the profile
harmonicCount(f, w) ==
    IF w.getBalancedHarmonicCount THEN Max(12, getBalancedHarmonicCount(f, w))
    ELSE IF w.getMaxAudibleHarmonics THEN Max(12, getMaxAudibleHarmonics(f, w))
    ELSE 32

\* computeConfigsForVelocity(velocity) of the profile of baseFreq
computeConfigsForVelocity(baseFreq, velocity, w) ==
    [i \in 1 .. harmonicCount(baseFreq, w) |-> config(i, velocity)]

\* new SpectralProfile(baseFreq, synth); serial tells the objects apart
SpectralProfile(baseFreq, w, serial) ==
    [baseFreq |-> baseFreq, serial |-> serial,
     configs |-> [v \in 0 .. 127 |-> computeConfigsForVelocity(baseFreq, v, w)]]

\* Math.round of a frequency in tenths of Hz
roundHz(baseFreq) == (baseFreq + 5) \div 10

\* getSpectralProfile that builds and stores a profile on every call
getSpectralProfileAlways(cache, w, baseFreq, serial) ==
    LET freqKey == roundHz(baseFreq)
        profile == SpectralProfile(baseFreq, w, serial)
    IN [cache |-> [k \in DOMAIN cache \cup {freqKey} |->
                     IF k = freqKey THEN profile ELSE cache[k]],
        profile |-> profile, built |-> TRUE]

\* getSpectralProfile(baseFreq): [cache afterwards, the profile returned,
\* built: a SpectralProfile was constructed]
getSpectralProfile(cache, w, baseFreq, serial) ==
    LET freqKey == roundHz(baseFreq)
    IN IF freqKey \notin DOMAIN cache
       THEN LET profile == SpectralProfile(baseFreq, w, serial)
            IN [cache |-> [k \in DOMAIN cache \cup {freqKey} |->
                             IF k = freqKey THEN profile ELSE cache[k]],
                profile |-> profile, built |-> TRUE]
       ELSE [cache |-> cache, profile |-> cache[freqKey], built |-> FALSE]

NoProfile == [absent |-> TRUE]
NoLog == [calls |-> 0, built |-> 0, requested |-> {}, freq |-> 0, returned |-> NoProfile]

\* the module is loaded, nothing is cached
ProfilesInit ==
    /\ window = [getBalancedHarmonicCount |-> TRUE, getMaxAudibleHarmonics |-> TRUE,
                 pitchHarmonicRolloff |-> TRUE]
    /\ spectralCache = [k \in {} |-> NoProfile]
    /\ profileLog = NoLog

\* ------------------------------------------------- piano envelope model
\* keyFrequency in tenths of Hz: A0, A2, A4, C8, and C9 (MIDI note 120)
EnvelopeFreqs == {275, 1100, 4400, 41860, 83720}
EnvelopeVelocities == {40, 100}

\* the positions of the frequency scaling slider that are modelled, in
\* tenths: its minimum, its default and its maximum
FrequencyScalings == {5, 10, 30}

\* what getPianoEnvelopeDecayTimes reads on window:
\* physicsSettings.pianoEnvelopeModel, whether pianoEnvelopeModelSettings is
\* there, and its frequencyScaling (the six decay times keep their defaults,
\* which are the values the function uses without the settings)
EnvelopeSettings ==
    [pianoEnvelopeModel : BOOLEAN, settings : BOOLEAN,
     frequencyScaling : FrequencyScalings]

\* Math.log2(baseFreq / minFreq) / Math.log2(maxFreq / minFreq), in thousandths
normalizedFreq(keyFrequency) ==
    CASE keyFrequency = 275 -> 0 [] keyFrequency = 1100 -> 276
      [] keyFrequency = 4400 -> 552 [] keyFrequency = 41860 -> 1000
      [] keyFrequency = 83720 -> 1138

\* lowScaling * (1.0 - normalizedFreq) + highScaling * normalizedFreq, in
\* thousandths
scalingFactor(keyFrequency, frequencyScaling) ==
    LET lowScaling == frequencyScaling * 100
        highScaling == 10000 \div frequencyScaling
        n == normalizedFreq(keyFrequency)
    IN (lowScaling * (1000 - n) + highScaling * n) \div 1000

\* the base decay times of the three frequency bands, in ms
baseDecayTimes(keyFrequency) ==
    IF keyFrequency < 1000 THEN [fastDecay |-> 500, slowDecay |-> 15000]
    ELSE IF keyFrequency < 4000 THEN [fastDecay |-> 300, slowDecay |-> 8000]
    ELSE [fastDecay |-> 100, slowDecay |-> 3000]

\* getPianoEnvelopeDecayTimes(keyFrequency, velocity, pedalState, keyState):
\* the decay times in ms, the resonance in thousandths
getPianoEnvelopeDecayTimes(keyFrequency, velocity, pedalState, keyState, w) ==
    IF ~w.pianoEnvelopeModel
    THEN [fastDecay |-> 300, slowDecay |-> 8000, resonance |-> 500]
    ELSE LET base == baseDecayTimes(keyFrequency)
             scaled == w.settings /\ w.frequencyScaling # 10
             factor == IF scaled THEN scalingFactor(keyFrequency, w.frequencyScaling)
                       ELSE 1000
             fastDecay == (base.fastDecay * factor) \div 1000
             slowDecay == (base.slowDecay * factor) \div 1000
         IN IF pedalState /\ keyState
            THEN [fastDecay |-> fastDecay, slowDecay |-> slowDecay, resonance |-> 1000]
            ELSE IF pedalState /\ ~keyState
            THEN [fastDecay |-> (fastDecay * 7) \div 10,
                  slowDecay |-> (slowDecay * 7) \div 10, resonance |-> 600]
            ELSE IF ~pedalState /\ keyState
            THEN [fastDecay |-> (fastDecay * 8) \div 10,
                  slowDecay |-> (slowDecay * 9) \div 10, resonance |-> 300]
            ELSE [fastDecay |-> (fastDecay * 5) \div 10,
                  slowDecay |-> (slowDecay * 5) \div 10, resonance |-> 100]

NoEnvelope ==
    [w |-> [pianoEnvelopeModel |-> TRUE, settings |-> TRUE, frequencyScaling |-> 10],
     called |-> FALSE, keyFrequency |-> 0, velocity |-> 0,
     pedalState |-> FALSE, keyState |-> FALSE,
     result |-> [fastDecay |-> 0, slowDecay |-> 0, resonance |-> 0]]

NoSteal == [absent |-> TRUE]

\* -------------------------------------------- PolySynthWrapper and the keys
MidiNotes == {60, 72}      \* the keys played; a note name stands for its midi note
NoEntry == [absent |-> TRUE]   \* a key that a Map does not have

\* envelopeDefaults of the constructor: release 0.5
envelopeDefaults == [absent |-> FALSE, release |-> 500]

\* PolySynthWrapper after its constructor, the main script after loading, no
\* call made on the synth
WrapperInit ==
    /\ wrapper = [activeVoices |-> [noteName \in MidiNotes |-> NoEntry],
                  noteIdCounter |-> 0,
                  noteEnvelopes |-> [noteName \in MidiNotes |-> NoEntry],
                  sustainPedalActive |-> FALSE]
    /\ main = [sustainPedalActive |-> FALSE,
               activeNotes |-> {},
               physicallyHeldNotes |-> {},
               sustainedNotes |-> <<>>,
               sustainDecayAutomations |-> [midiNote \in MidiNotes |-> NoEntry],
               releaseTimeouts |-> <<>>]
    /\ issued = <<>>

\* the default settings, no call made, no voice stolen
OtherInit ==
    /\ envelope = NoEnvelope
    /\ stolenAt = [id \in NoteIds |-> NoSteal]
    /\ WrapperInit

Init == SynthInit /\ selection = NoSelection /\ ProfilesInit /\ OtherInit

\* the callers make at most MaxCalls calls, at multiples of CallPeriod, and
\* take the note ids in increasing order (ids are opaque: highest + 1 stands
\* for every id that was never used)
CanCall(noteId) ==
    /\ calls < MaxCalls
    /\ now % CallPeriod = 0
    /\ noteId <= highest + 1

\* a call of noteOn and what the history records of it
NoteOnCalled(r, noteId) ==
    LET fresh == activeNotes[noteId] = NoNote
    IN /\ calls' = calls + 1
       /\ highest' = Max(highest, noteId)
       /\ Becomes(r.S)
       /\ reused' = (reused \/ ~fresh)
       /\ released' = (released \cup Range(r.stolen)) \ {noteId}
       /\ probe' = IF fresh
                   THEN [phase |-> "on", id |-> noteId,
                         notes0 |-> getActiveNoteCount(Cur),
                         partials0 |-> getActivePartialCount(Cur),
                         quiet |-> r.stolen = <<>>]
                   ELSE NoProbe
       /\ last' = [Op("noteOn", noteId, PartsOf(Cur, noteId)) EXCEPT
                     !.limit = r.limit,
                     !.requested = r.requested,
                     !.free0 = Len(available),
                     !.got = Len(r.S.activeNotes[noteId].partials),
                     !.stolen = r.stolen,
                     !.stolenHeld = \E k \in 1 .. Len(r.stolen) :
                                       activeNotes[r.stolen[k]].keyDown]
       /\ UNCHANGED <<envelopeVars, profileVars, selection, now, nextTick>>

\* noteOn(noteId, frequency, velocity, keyDown, pedalDown) is called now
NoteOnCall(noteId, candidates, velocity, keyDown, pedalDown) ==
    NoteOnCalled(noteOn(Cur, noteId, candidates, velocity, keyDown, pedalDown, now), noteId)

NoteOn(noteId, candidates, velocity, keyDown, pedalDown) ==
    /\ CanCall(noteId)
    /\ NoteOnCall(noteId, candidates, velocity, keyDown, pedalDown)
    /\ UNCHANGED <<stealVars, wrapperVars>>

NoteOff(noteId, releaseTime, immediateCleanup) ==
    /\ CanCall(noteId)
    /\ calls' = calls + 1
    /\ Becomes(noteOff(Cur, noteId, releaseTime, immediateCleanup, now))
    /\ released' = IF activeNotes[noteId] = NoNote THEN released
                   ELSE IF immediateCleanup THEN released \ {noteId}
                   ELSE released \cup {noteId}
    /\ probe' = IF /\ probe.phase = "on" /\ probe.id = noteId
                   /\ releaseTime = stealRelease /\ ~immediateCleanup
                THEN [probe EXCEPT !.phase = "off"]
                ELSE NoProbe
    /\ last' = [Op("noteOff", noteId, PartsOf(Cur, noteId)) EXCEPT
                  !.immediate = immediateCleanup]
    /\ UNCHANGED <<otherVars, profileVars, selection, now, nextTick, highest, reused>>

UpdateNoteState(noteId, keyDown, pedalDown) ==
    /\ CanCall(noteId)
    /\ calls' = calls + 1
    /\ Becomes(updateNoteState(Cur, noteId, keyDown, pedalDown))
    /\ probe' = NoProbe
    /\ last' = Op("updateNoteState", noteId, PartsOf(Cur, noteId))
    /\ UNCHANGED <<otherVars, profileVars, selection, now, nextTick, highest, reused, released>>

\* the setInterval callback of startHarmonicEvolution
Tick ==
    /\ now = nextTick
    /\ Becomes(updateHarmonicEvolution(Cur, now))
    /\ nextTick' = now + tickPeriod
    /\ last' = Op("tick", Null, {})
    /\ UNCHANGED <<otherVars, profileVars, selection, now, calls, highest, reused, released, probe>>

\* the live timers of kind (noteOff or decay) of noteId that are due
DueCleanups(noteId, kind) ==
    SelectSeq(cleanupTimers[noteId], LAMBDA x : x.kind = kind /\ x.due <= now)

\* the synth at the moment the first due timer of noteId fires: the timer is
\* no longer live, its callback has not run yet
Fired(noteId, kind) ==
    [Cur EXCEPT !.cleanupTimers[noteId] =
                    clearTimeout(cleanupTimers[noteId], Head(DueCleanups(noteId, kind)))]

NoteOffTimeout(noteId) ==
    /\ DueCleanups(noteId, "noteOff") # <<>>
    /\ Becomes(noteOffTimeout(Fired(noteId, "noteOff"), noteId, now))
    /\ released' = released \ {noteId}
    /\ probe' = IF probe.phase = "off" /\ probe.id = noteId
                THEN [probe EXCEPT !.phase = "done"]
                ELSE Disturb(probe, {noteId})
    /\ last' = Op("noteOffTimeout", noteId, PartsOf(Cur, noteId))
    /\ UNCHANGED <<otherVars, profileVars, selection, now, nextTick, calls, highest, reused>>

DecayTimeout(noteId) ==
    /\ DueCleanups(noteId, "decay") # <<>>
    /\ Becomes(decayTimeout(Fired(noteId, "decay"), noteId, now))
    /\ released' = released \cap {id \in NoteIds : activeNotes'[id] # NoNote}
    /\ probe' = Disturb(probe, {id \in NoteIds : activeNotes[id] # NoNote /\ activeNotes'[id] = NoNote})
    /\ last' = Op("decayTimeout", noteId, PartsOf(Cur, noteId))
    /\ UNCHANGED <<otherVars, profileVars, selection, now, nextTick, calls, highest, reused>>

DisconnectTimeout(partial) ==
    /\ releaseTimers[partial] # <<>>
    /\ Head(releaseTimers[partial]) <= now
    /\ Becomes(disconnectTimeout(Cur, partial))
    /\ last' = Op("disconnectTimeout", Null, {partial})
    /\ UNCHANGED <<otherVars, profileVars, selection, now, nextTick, calls, highest, reused, released, probe>>

\* the due times of the live cleanup timers
CleanupDues ==
    UNION {{cleanupTimers[id][k].due : k \in 1 .. Len(cleanupTimers[id])} : id \in NoteIds}

\* the due times of all live timers, and the next instant of the callers
Deadlines ==
    {nextTick}
    \cup (IF calls < MaxCalls THEN {(now \div CallPeriod + 1) * CallPeriod} ELSE {})
    \cup CleanupDues
    \cup {Head(releaseTimers[i]) : i \in {x \in DOMAIN releaseTimers : releaseTimers[x] # <<>>}}

\* time passes until the next timer is due
Advance ==
    /\ \A d \in Deadlines : d > now
    /\ \E d \in Deadlines :
          /\ \A e \in Deadlines : d <= e
          /\ d <= MaxTime
          /\ now' = d
    /\ last' = Op("advance", Null, {})
    /\ UNCHANGED <<otherVars, profileVars, selection, inUse, available, gain, activeNotes, noteOrder, pendingCleanups, cleanupTimers,
                   releaseTimers, nextTick, calls, highest, reused, released, probe>>

Next ==
    \/ \E noteId \in NoteIds, candidates \in CandidateCounts, velocity \in Velocities,
          ks \in KeyStates :
          NoteOn(noteId, candidates, velocity, ks[1], ks[2])
    \/ \E noteId \in NoteIds, releaseTime \in ReleaseTimes, immediateCleanup \in BOOLEAN :
          NoteOff(noteId, releaseTime, immediateCleanup)
    \/ \E noteId \in NoteIds, ks \in KeyStates :
          UpdateNoteState(noteId, ks[1], ks[2])
    \/ Tick
    \/ \E noteId \in NoteIds : NoteOffTimeout(noteId)
    \/ \E noteId \in NoteIds : DecayTimeout(noteId)
    \/ \E partial \in Partials : DisconnectTimeout(partial)
    \/ Advance

Spec == Init /\ [][Next]_vars

\* ------------------------------------------ the pool on its own (PoolSpec)
PoolAcquire ==
    /\ Becomes(acquire(Cur).S)
    /\ last' = [Op("acquire", Null, {acquire(Cur).partial}) EXCEPT
                  !.free0 = Len(available)]
    /\ UNCHANGED <<otherVars, profileVars, selection, now, nextTick, calls, highest, reused, released, probe>>

PoolRelease(partial) ==
    /\ Becomes(release(Cur, partial))
    /\ last' = [Op("release", Null, {partial}) EXCEPT !.free0 = Len(available)]
    /\ UNCHANGED <<otherVars, profileVars, selection, now, nextTick, calls, highest, reused, released, probe>>

PoolNext ==
    \/ PoolAcquire
    \/ \E partial \in Partials \cup {Null} : PoolRelease(partial)

PoolSpec == Init /\ [][PoolNext]_vars

\* -------------------------------------------------------------- properties
InUseSet == {i \in Partials : inUse[i]}

Occurrences(s, x) == Cardinality({k \in 1 .. Len(s) : s[k] = x})

\* C1: after every acquire() and release(p), also of null and of a free
\* partial: free + in-use = capacity, no index is twice on the free list, an
\* index is on the free list exactly when its partial is not in use, and the
\* pool keeps its size.
C1_PoolInvariant ==
    /\ Len(available) + Cardinality(InUseSet) = PoolSize
    /\ \A i \in Partials : Occurrences(available, i) = (IF inUse[i] THEN 0 ELSE 1)
    /\ Range(available) \subseteq Partials
    /\ DOMAIN inUse = Partials

\* release of a partial that is already free, while other partials are in use
C1_Witness ==
    /\ last.op = "release"
    /\ \E p \in last.parts : p # Null /\ ~inUse[p]
    /\ last.free0 = Len(available)
    /\ Len(available) < PoolSize

\* acquire() on the empty pool returned null
C1_WitnessExhausted ==
    last.op = "acquire" /\ last.parts = {Null} /\ Len(available) = 0

\* C2: no partial is in the lists of two active voices, nor twice in one
\* list, and every partial of an active voice is in use.
C2_OneOwner ==
    \A a \in NoteIds, b \in NoteIds :
       (activeNotes[a] # NoNote /\ activeNotes[b] # NoNote) =>
          \A j \in 1 .. Len(activeNotes[a].partials), k \in 1 .. Len(activeNotes[b].partials) :
             /\ inUse[activeNotes[a].partials[j]]
             /\ (activeNotes[a].partials[j] = activeNotes[b].partials[k]) => (a = b /\ j = k)

\* two voices hold partials, and a third noteOn has just found the pool empty
C2_Witness ==
    /\ last.op = "noteOn"
    /\ last.free0 = 0
    /\ Len(available) = 0
    /\ \E a \in NoteIds \ {last.id}, b \in NoteIds \ {last.id} :
          /\ a # b /\ activeNotes[a] # NoNote /\ activeNotes[b] # NoNote
          /\ Len(activeNotes[a].partials) > 0 /\ Len(activeNotes[b].partials) > 0

\* C3: a second noteOn with the same id leaves no partial of the first
\* instance in use without an owner: each of them is free, or waits for its
\* release, or belongs to the new voice.
C3_SecondNoteOnReleasesFirst ==
    last.op = "noteOn" =>
       \A p \in last.parts :
          \/ ~inUse[p]
          \/ releaseTimers[p] # <<>>
          \/ p \in Range(activeNotes[last.id].partials)

\* C4: when noteOn finds the pool empty and steals another voice, the retried
\* acquisition succeeds: the new voice gets more partials than were free
\* before the call.
C4_StealRetrySucceeds ==
    (last.op = "noteOn" /\ last.stolen # <<>> /\ last.id \notin Range(last.stolen)) =>
       last.got > last.free0

\* C5: once noteOff(id, r, false) has run on a voice, no partial gain of the
\* voice has a scheduled value above its current value.
C5_ReleaseNeverRises ==
    \A id \in released :
       activeNotes[id] # NoNote =>
          \A k \in 1 .. Len(activeNotes[id].partials) :
             LET p == gain[activeNotes[id].partials[k]]
             IN \A e \in 1 .. Len(p) : p[e].t > now => p[e].v <= ParamValue(p, now)

\* C6: a noteOn that asks for more partials than are free registers its voice
\* with what it could get: never more than requested, never less than what
\* was free, and the voices together never hold more partials than the pool has.
C6_AdmissionDegrades ==
    /\ getActivePartialCount(Cur) <= PoolSize
    /\ Cardinality(InUseSet) <= PoolSize
    /\ last.op = "noteOn" =>
          /\ activeNotes[last.id] # NoNote
          /\ last.got <= last.requested
          /\ last.got >= Min(last.requested, last.free0)
          /\ last.stolen = <<>> => last.got = Min(last.requested, last.free0)

\* one noteOn asked for more partials than the pool has and got the whole pool
C6_Witness ==
    /\ last.op = "noteOn"
    /\ last.requested > PoolSize
    /\ last.free0 = PoolSize
    /\ last.got = PoolSize
    /\ Len(activeNotes[last.id].partials) = PoolSize

\* C7: no voice that noteOn steals has keyDown = true at that moment.
C7_HeldNeverStolen == last.op = "noteOn" => ~last.stolenHeld

\* a voice was stolen while another voice with partials was held by its key
C7_Witness ==
    /\ last.op = "noteOn"
    /\ last.stolen # <<>>
    /\ \E id \in NoteIds \ {last.id} :
          /\ activeNotes[id] # NoNote
          /\ activeNotes[id].keyDown
          /\ Len(activeNotes[id].partials) > 0

\* C8: when noteOff(id, r, true) returns, the voice is gone and all of its
\* partials are free.
C8_ImmediateFreesPartials ==
    (last.op = "noteOff" /\ last.immediate) =>
       /\ activeNotes[last.id] = NoNote
       /\ \A p \in last.parts : ~inUse[p]

\* the cleanup scheduled by the noteOff of the probed voice has just run
CleanupJustRan ==
    probe.phase = "done" /\ last.op = "noteOffTimeout" /\ last.id = probe.id

\* C9 as stated: after noteOn(id), noteOff(id, 0.05, false) and the cleanup,
\* the voice is gone and both counts are what they were before the noteOn.
C9_CountsRestored ==
    CleanupJustRan =>
       /\ activeNotes[probe.id] = NoNote
       /\ getActiveNoteCount(Cur) = probe.notes0
       /\ getActivePartialCount(Cur) = probe.partials0

\* C9 amended: the same, when the noteOn stole no voice and no other voice
\* was reclaimed between the noteOn and the cleanup.
C9_CountsRestoredWhenQuiet ==
    (CleanupJustRan /\ probe.quiet) =>
       /\ activeNotes[probe.id] = NoNote
       /\ getActiveNoteCount(Cur) = probe.notes0
       /\ getActivePartialCount(Cur) = probe.partials0

\* the cleanup of the probed voice ran while another voice held partials
C9_Witness ==
    /\ CleanupJustRan
    /\ probe.quiet
    /\ probe.partials0 > 0
    /\ last.parts # {}

NoTimers ==
    /\ \A id \in NoteIds : pendingCleanups[id] = NoTimer
    /\ \A i \in Partials : releaseTimers[i] = <<>>

\* C10: every partial of a destroyed voice gets exactly one release: it stays
\* in use and off the free list until its timer fires, and is then free and
\* once on the free list; with distinct ids the whole pool is free once no
\* voice is active and no timer is left.
C10_DestroyedVoiceReturnsPartials ==
    /\ \A i \in Partials :
          /\ Len(releaseTimers[i]) <= 1
          /\ releaseTimers[i] # <<>> =>
                /\ inUse[i]
                /\ Occurrences(available, i) = 0
                /\ \A id \in NoteIds :
                      activeNotes[id] # NoNote => i \notin Range(activeNotes[id].partials)
    /\ (last.op \in {"noteOffTimeout", "decayTimeout", "noteOff"}
          /\ activeNotes[last.id] = NoNote) =>
          \A p \in last.parts : Len(releaseTimers[p]) = 1
    /\ last.op = "disconnectTimeout" =>
          \A p \in last.parts : ~inUse[p] /\ Occurrences(available, p) = 1
    /\ (~reused /\ ActiveIds(Cur) = {} /\ NoTimers) => Len(available) = PoolSize

\* all voices are gone, by a noteOff timer and by the decay cleanup, and the
\* last partial has just come back
C10_Witness ==
    /\ ~reused
    /\ highest >= 2
    /\ ActiveIds(Cur) = {}
    /\ NoTimers
    /\ last.op = "disconnectTimeout"
    /\ Len(available) = PoolSize

\* C11: in noteOn(id), noteOff(id, r, false), noteOn(id), the cleanup timer
\* of the first instance does not remove the second one: a release timer
\* that fires removes only a voice that has itself been released.
C11_TimerSparesNewInstance ==
    [][\A id \in NoteIds :
          (last'.op = "noteOffTimeout" /\ last'.id = id /\ activeNotes[id] # NoNote)
             => id \in released]_vars

\* the target of a tick for the partial at position k of a voice at time t
TickTarget(note, k, t) ==
    Max(minAmp, (note.initialAmplitudes[k].initialAmp * uniformDecay(note, t)) \div GainScale)

\* |current - target| / max(current, 0.0001) <= 0.05
WithinHysteresis(current, target) ==
    Abs(current - target) * 100 <= 5 * Max(current, minAmp)

C13_ReleaseIdempotent ==
    \A p \in Partials \cup {Null} :
       LET once == release(Cur, p)
           twice == release(once, p)
           a1 == acquire(twice)
           a2 == acquire(a1.S)
       IN /\ twice = once
          /\ (p # Null /\ ~inUse[p]) => once = Cur
          /\ Occurrences(twice.available, p) <= 1
          /\ a1.partial # Null => a1.partial # a2.partial

\* release(p) has just been a no-op on the partial on top of the free list
C13_Witness ==
    /\ last.op = "release"
    /\ last.free0 = Len(available)
    /\ Len(available) >= 2
    /\ last.parts = {available[Len(available)]}

\* C14: a noteOn that finds the whole pool in use is not dropped: its voice
\* is registered and holds at least one partial.
C14_OverloadedNoteSounds ==
    (last.op = "noteOn" /\ last.free0 = 0 /\ last.requested > 0) =>
       /\ activeNotes[last.id] # NoNote
       /\ last.got > 0

\* a voice with partials is at the decay threshold of the tick at time t
SilentLongEnough(S, note, t) ==
    /\ \A k \in 1 .. Len(note.partials) :
          ParamValue(S.gain[note.partials[k]], t) < decayThreshold
    /\ t - note.startTime > minElapsed

C15_WitnessKept ==
    /\ last.op = "decayTimeout"
    /\ last.parts # {}
    /\ activeNotes[last.id] # NoNote
    /\ pendingCleanups[last.id] = NoTimer

\* release times in ms given to noteOff: none, below, at and above the
\* 0.1 s minimum and the 0.15 s switch from linear to exponential
ReleaseTimeCases == {0, 50, 100, 149, 150, 500}

\* C16: for every release time r >= 0 and every active voice,
\* noteOff(id, r, false) replaces each partial's timeline by an anchor at the
\* current gain and one ramp to 0.001 ending max(r, 0.1 s) later, linear when
\* that is below 0.15 s and exponential otherwise, arms the cleanup r + 100 ms
\* later, which is not before the end of the ramp, and leaves the voice
\* active; a released voice stays active as long as its timer is pending.
C16_ReleaseRampAndTimer ==
    /\ \A id \in NoteIds, r \in ReleaseTimeCases :
          activeNotes[id] # NoNote =>
             LET S == noteOff(Cur, id, r, FALSE, now)
                 rampTime == IF r > minRelease THEN r ELSE minRelease
             IN /\ \A p \in Range(activeNotes[id].partials) :
                      S.gain[p] =
                         <<[t |-> now, v |-> ParamValue(gain[p], now), kind |-> "set"],
                           [t |-> now + rampTime, v |-> quietGain,
                            kind |-> IF rampTime < linearBelow THEN "lin" ELSE "exp"]>>
                /\ S.pendingCleanups[id] = [kind |-> "noteOff", due |-> now + r + cleanupGrace]
                /\ now + r + cleanupGrace >= now + rampTime
                /\ S.activeNotes[id] # NoNote
                /\ S.activeNotes[id].partials = activeNotes[id].partials
                /\ S.inUse = inUse /\ S.available = available
    /\ \A id \in released :
          /\ activeNotes[id] # NoNote
          /\ pendingCleanups[id] # NoTimer
          /\ pendingCleanups[id].kind = "noteOff"
          /\ pendingCleanups[id].due >= now

\* noteOff(id, 0.05, false) has just run on a voice with partials: linear
\* ramps over the 0.1 s minimum, cleanup armed 150 ms later
C16_Witness ==
    /\ last.op = "noteOff"
    /\ ~last.immediate
    /\ last.parts # {}
    /\ last.id \in released
    /\ pendingCleanups[last.id] = [kind |-> "noteOff", due |-> now + stealRelease + cleanupGrace]
    /\ \A p \in last.parts :
          /\ Len(gain[p]) = 2
          /\ gain[p][2] = [t |-> now + minRelease, v |-> quietGain, kind |-> "lin"]

\* ------------------------------------- per-voice volume (VolumeSpec)
SustainDecayTime == 400     \* sustainDecayTime of startSustainDecay in ms, shortened

Volumes == {0, GainScale \div 2}   \* volume arguments of setNoteVolume

\* setNoteVolume(noteId, volume)
setNoteVolume(S, noteId, volume, t) ==
    IF S.activeNotes[noteId] = NoNote THEN S
    ELSE [S EXCEPT !.activeNotes[noteId].gainNode = ParamAnchor(volume, t)]

\* rampNoteVolume(noteId, targetVolume, duration)
rampNoteVolume(S, noteId, targetVolume, duration, t) ==
    IF S.activeNotes[noteId] = NoNote THEN S
    ELSE LET currentValue == ParamValue(S.activeNotes[noteId].gainNode, t)
         IN [S EXCEPT !.activeNotes[noteId].gainNode =
                ParamRamp(ParamAnchor(currentValue, t), targetVolume, t + duration, "exp")]

\* a cancel that puts the voice back to full volume
cancelToFullVolume(S, noteId, t) ==
    IF S.activeNotes[noteId] = NoNote THEN S
    ELSE [S EXCEPT !.activeNotes[noteId].gainNode = ParamAnchor(GainScale, t)]

\* automation.cancel() of startSustainDecay, for the voice noteId
cancelSustainDecay(S, noteId, t) ==
    IF S.activeNotes[noteId] = NoNote THEN S
    ELSE LET currentValue == ParamValue(S.activeNotes[noteId].gainNode, t)
         IN [S EXCEPT !.activeNotes[noteId].gainNode = ParamAnchor(currentValue, t)]

SetNoteVolume(noteId, volume) ==
    /\ CanCall(noteId)
    /\ activeNotes[noteId] # NoNote
    /\ calls' = calls + 1
    /\ Becomes(setNoteVolume(Cur, noteId, volume, now))
    /\ probe' = NoProbe
    /\ last' = Op("setNoteVolume", noteId, PartsOf(Cur, noteId))
    /\ UNCHANGED <<otherVars, profileVars, selection, now, nextTick, highest, reused, released>>

\* startSustainDecay: rampNoteVolume(noteName, 0.001, sustainDecayTime)
RampNoteVolume(noteId) ==
    /\ CanCall(noteId)
    /\ activeNotes[noteId] # NoNote
    /\ calls' = calls + 1
    /\ Becomes(rampNoteVolume(Cur, noteId, quietGain, SustainDecayTime, now))
    /\ probe' = NoProbe
    /\ last' = Op("rampNoteVolume", noteId, PartsOf(Cur, noteId))
    /\ UNCHANGED <<otherVars, profileVars, selection, now, nextTick, highest, reused, released>>

CancelSustainDecay(noteId) ==
    /\ CanCall(noteId)
    /\ activeNotes[noteId] # NoNote
    /\ calls' = calls + 1
    /\ Becomes(cancelSustainDecay(Cur, noteId, now))
    /\ probe' = NoProbe
    /\ last' = Op("cancelSustainDecay", noteId, PartsOf(Cur, noteId))
    /\ UNCHANGED <<otherVars, profileVars, selection, now, nextTick, highest, reused, released>>

VolumeNext ==
    \/ \E noteId \in NoteIds, ks \in KeyStates :
          NoteOn(noteId, FewCandidates, 100, ks[1], ks[2])
    \/ \E noteId \in NoteIds, releaseTime \in ReleaseTimes :
          NoteOff(noteId, releaseTime, FALSE)
    \/ \E noteId \in NoteIds, volume \in Volumes : SetNoteVolume(noteId, volume)
    \/ \E noteId \in NoteIds : RampNoteVolume(noteId)
    \/ \E noteId \in NoteIds : CancelSustainDecay(noteId)
    \/ Tick
    \/ \E noteId \in NoteIds : NoteOffTimeout(noteId)
    \/ \E noteId \in NoteIds : DecayTimeout(noteId)
    \/ \E partial \in Partials : DisconnectTimeout(partial)
    \/ Advance

VolumeSpec == Init /\ [][VolumeNext]_vars

\* the timelines that step S1 has put on the gains of voice id of S0: its
\* partial gains and its voice gain, each with the value it had before
SetGains(S0, S1, id, t) ==
    {[before |-> ParamValue(S0.gain[p], t), timeline |-> S1.gain[p]] :
        p \in {q \in Range(S0.activeNotes[id].partials) : S1.gain[q] # S0.gain[q]}}
    \cup (IF S1.activeNotes[id].gainNode # S0.activeNotes[id].gainNode
          THEN {[before |-> ParamValue(S0.activeNotes[id].gainNode, t),
                 timeline |-> S1.activeNotes[id].gainNode]}
          ELSE {})

\* every timeline that the step has set starts at the value before and goes
\* nowhere above it, or nowhere above the larger of it and the ramp target
\* 0.001 when withFloor
StartsAtCurrent(S0, S1, id, t, withFloor) ==
    \A g \in SetGains(S0, S1, id, t) :
       /\ g.timeline[1] = [t |-> t, v |-> g.before, kind |-> "set"]
       /\ \A e \in 1 .. Len(g.timeline) :
            g.timeline[e].v <= IF withFloor THEN Max(g.before, quietGain) ELSE g.before

OnTheLine(K, a, total) ==
    2 * Abs(3 * total * K - 10 * maxPartials * a) <= 3 * total

\* the properties of K(a) = adaptiveMaxPartials(a, total) over a pool of
\* total partials
LimitScalesDown(total) ==
    \A a \in 0 .. total :
        LET K == adaptiveMaxPartials(a, total)
            above70 == 10 * (total - a) > 7 * total
        IN /\ minAdaptivePartials <= K /\ K <= maxPartials
           /\ ~above70 => K = maxPartials
           /\ above70 => K = minAdaptivePartials \/ OnTheLine(K, a, total)
           /\ above70 /\ K = minAdaptivePartials /\ ~OnTheLine(K, a, total)
                => 3 * total * K > 10 * maxPartials * a
           /\ a < total => K <= adaptiveMaxPartials(a + 1, total)

\* C18: the per-voice partial limit K that noteOn computes from the pool is the
\* configured maximum 12 while at most 70% of the pool is in use, follows the
\* line from 12 (at 70%) down with rising utilization, never goes below the
\* floor 6, and never rises when the free count falls; for the pool of the
\* current state and for every free count of a pool of the code's 128 partials
C18_AdaptiveLimit ==
    /\ LimitScalesDown(PoolSize)
    /\ LimitScalesDown(initialPoolSize)
    /\ LET K == adaptiveMaxPartials(Len(available), PoolSize)
       IN /\ K \in minAdaptivePartials .. maxPartials
          /\ 10 * (PoolSize - Len(available)) <= 7 * PoolSize => K = maxPartials
          /\ Len(available) = 0 => K = minAdaptivePartials

\* the pool is more than 70% in use after an acquire and the limit is scaled
\* down to a value strictly between the floor and the maximum
C18_Witness ==
    /\ last.op = "acquire"
    /\ 10 * (PoolSize - Len(available)) > 7 * PoolSize
    /\ adaptiveMaxPartials(Len(available), PoolSize) > minAdaptivePartials
    /\ adaptiveMaxPartials(Len(available), PoolSize) < maxPartials

\* ------------------------------------- selectPartials on its own (SelectSpec)
MaxConfigs == 3            \* length of the config lists passed to selectPartials
MaxLimit == 3              \* largest limit passed (noteOn passes 6 .. 12)
ampThreshold == 10         \* 0.001
maxFreq == 24000           \* Hz
ConfigAmps == {5, ampThreshold, ampThreshold + 1, 50}
ConfigFreqs == {440, maxFreq, maxFreq + 1}
Configs == [amp : ConfigAmps, freq : ConfigFreqs]
ConfigLists == UNION {[1 .. n -> Configs] : n \in 0 .. MaxConfigs}

\* the filter of selectPartials on configs[i]
passesFilter(cfg) == cfg.amp > ampThreshold /\ cfg.freq <= maxFreq

\* the candidates of selectPartials, each named by its index in configs
filterConfigs(configs) ==
    SelectSeq([i \in 1 .. Len(configs) |-> i], LAMBDA i : passesFilter(configs[i]))

RECURSIVE insertByAmp(_, _, _)
\* c goes behind every candidate at least as loud (Array.prototype.sort is stable)
insertByAmp(sorted, c, configs) ==
    IF sorted = <<>> THEN <<c>>
    ELSE IF configs[Head(sorted)].amp >= configs[c].amp
         THEN <<Head(sorted)>> \o insertByAmp(Tail(sorted), c, configs)
         ELSE <<c>> \o sorted

RECURSIVE sortByAmp(_, _)
\* candidates.sort((a, b) => b.amp - a.amp)
sortByAmp(cands, configs) ==
    IF cands = <<>> THEN <<>>
    ELSE insertByAmp(sortByAmp(SubSeq(cands, 1, Len(cands) - 1), configs),
                     cands[Len(cands)], configs)

\* selectPartials without the sort
selectWithoutSort(configs, maxPartialsArg) ==
    LET limit == IF maxPartialsArg = 0 THEN maxPartials ELSE maxPartialsArg
        cands == filterConfigs(configs)
    IN SubSeq(cands, 1, Min(limit, Len(cands)))

\* selectPartials(configs, maxPartials): the returned configs, in order, each
\* named by its index in configs; maxPartialsArg = 0 stands for the falsy
\* values (null, the default, and 0) that fall back to this.maxPartials
selectPartials(configs, maxPartialsArg) ==
    LET limit == IF maxPartialsArg = 0 THEN maxPartials ELSE maxPartialsArg
        cands == sortByAmp(filterConfigs(configs), configs)
    IN SubSeq(cands, 1, Min(limit, Len(cands)))

SelectInit ==
    /\ SynthInit
    /\ \E configs \in ConfigLists : selection = [NoSelection EXCEPT !.configs = configs]
    /\ ProfilesInit
    /\ OtherInit

SelectPartials(maxPartialsArg) ==
    /\ selection' = [selection EXCEPT
                       !.maxPartials = maxPartialsArg,
                       !.result = selectPartials(selection.configs, maxPartialsArg),
                       !.called = TRUE]
    /\ last' = Op("selectPartials", Null, {})
    /\ UNCHANGED <<otherVars, profileVars, inUse, available, gain, activeNotes, noteOrder, pendingCleanups, cleanupTimers,
                   releaseTimers, now, nextTick, calls, highest, reused, released, probe>>

SelectNext == \E maxPartialsArg \in 1 .. MaxLimit : SelectPartials(maxPartialsArg)

SelectSpec == SelectInit /\ [][SelectNext]_vars

\* ---- C19
EligibleIndexes(configs) == {i \in 1 .. Len(configs) : passesFilter(configs[i])}

\* C19: selectPartials(configs, K), for a limit K >= 1 as noteOn passes it,
\* returns the top K eligible configs by amplitude: min(K, number of eligible
\* configs) entries, so at most K; each an element of configs with amplitude
\* above 0.001 and frequency at most 24000 Hz; no element taken twice; in
\* descending amplitude order; and no eligible config that was left out is
\* louder than a returned one
C19_SelectTopK ==
    selection.called =>
        LET configs == selection.configs
            K == selection.maxPartials
            result == selection.result
            eligible == EligibleIndexes(configs)
        IN /\ Len(result) <= K
           /\ Len(result) = Min(K, Cardinality(eligible))
           /\ \A k \in 1 .. Len(result) :
                /\ result[k] \in 1 .. Len(configs)
                /\ configs[result[k]].amp > ampThreshold
                /\ configs[result[k]].freq <= maxFreq
           /\ \A j, k \in 1 .. Len(result) : j # k => result[j] # result[k]
           /\ \A k \in 1 .. Len(result) - 1 :
                configs[result[k]].amp >= configs[result[k + 1]].amp
           /\ \A i \in eligible \ Range(result) : \A k \in 1 .. Len(result) :
                configs[i].amp <= configs[result[k]].amp

\* a call that had to cut: more eligible configs than the limit, a louder one
\* behind a quieter one in configs, and a config that fails the filter
C19_Witness ==
    /\ selection.called
    /\ Cardinality(EligibleIndexes(selection.configs)) > selection.maxPartials
    /\ Len(selection.result) = selection.maxPartials
    /\ \E i \in 1 .. Len(selection.configs) : ~passesFilter(selection.configs[i])
    /\ \E i, j \in EligibleIndexes(selection.configs) :
         i < j /\ selection.configs[i].amp < selection.configs[j].amp

\* ---- C20
\* the voices stealing may take: not held by the key, with at least one partial
StealCandidates(S) ==
    {id \in ActiveIds(S) : ~S.activeNotes[id].keyDown /\ Len(S.activeNotes[id].partials) > 0}

\* stealScore(a) <= stealScore(b), for the voices of ids a and b
ScoreAtMost(S, a, b, t) ==
    scoreNum(S, S.activeNotes[a], t) * scoreDen(S.activeNotes[b], t)
        <= scoreNum(S, S.activeNotes[b], t) * scoreDen(S.activeNotes[a], t)

\* what stealVoiceFromQuietestSustainedNote would do in the current state
StealChoice ==
    LET r == stealVoiceFromQuietestSustainedNote(Cur, now)
        cands == StealCandidates(Cur)
    IN /\ cands = {} => r.stolen = Null /\ r.S = Cur
       /\ cands # {} =>
            /\ r.stolen \in cands
            /\ \A id \in cands : ScoreAtMost(Cur, r.stolen, id, now)
            /\ r.S.pendingCleanups[r.stolen] # NoTimer
            /\ \A id \in NoteIds \ {r.stolen} :
                 /\ r.S.activeNotes[id] = activeNotes[id]
                 /\ r.S.pendingCleanups[id] = pendingCleanups[id]

\* C20: voice stealing selects, among the active voices with keyDown = false and
\* at least one partial, one of minimum score effectiveVolume / (1 + age * 0.1)
\* (voice gain times mean partial gain, age since the voice's start) and
\* releases that voice only; with no such voice it returns null and changes
\* nothing. This holds for a steal in any state, and the first voice a noteOn
\* steals is that choice
C20_StealsQuietestOldest ==
    [][/\ StealChoice
       /\ (last'.op = "noteOn" /\ last'.stolen # <<>>) =>
            /\ Head(last'.stolen) \in StealCandidates(Cur)
            /\ \A id \in StealCandidates(Cur) :
                 ScoreAtMost(Cur, Head(last'.stolen), id, now)
       /\ (last'.op = "noteOn" /\ StealCandidates(Cur) = {}) =>
            /\ last'.stolen = <<>>
            /\ \A id \in NoteIds \ {last'.id} :
                 /\ activeNotes'[id] = activeNotes[id]
                 /\ pendingCleanups'[id] = pendingCleanups[id]]_vars

\* a noteOn stole a voice while a second candidate with a strictly higher
\* score was there, and left that one alone
C20_Witness ==
    /\ last.op = "noteOn"
    /\ Len(last.stolen) = 1
    /\ last.stolen[1] \in StealCandidates(Cur) \ {last.id}
    /\ \E id \in StealCandidates(Cur) \ {last.id, last.stolen[1]} :
         /\ pendingCleanups[id] = NoTimer
         /\ ~ScoreAtMost(Cur, id, last.stolen[1], now)

\* a noteOn found the pool empty and no voice to steal: nothing was released
C20_WitnessNull ==
    /\ last.op = "noteOn"
    /\ last.free0 = 0
    /\ last.requested > 0
    /\ last.stolen = <<>>
    /\ ActiveIds(Cur) \ {last.id} # {}

\* ----------------------------- noteOn on a pool of many partials (LimitSpec)
LargePoolSize == 40        \* partials in the pool (128 in the code)
LimitCalls == 4            \* calls of noteOn in a run
MostCandidates == 16       \* more configs pass the filter than any limit
LimitCandidates == {5, MostCandidates}

LimitInit ==
    SynthInitWith(LargePoolSize) /\ selection = NoSelection /\ ProfilesInit /\ OtherInit

\* the callers play a chord at time 0, with fresh note ids while there are any
LimitNoteOn(noteId, candidates, keyDown, pedalDown) ==
    /\ calls < LimitCalls
    /\ now = 0
    /\ noteId = Min(highest + 1, MaxNoteId)
    /\ NoteOnCall(noteId, candidates, 100, keyDown, pedalDown)
    /\ UNCHANGED <<stealVars, wrapperVars>>

\* the disconnect timers that are due together run one after the other, in
\* the order of the pool
LimitDisconnectTimeout(partial) ==
    /\ \A q \in DOMAIN inUse :
          q < partial =>
             IF releaseTimers[q] = <<>> THEN TRUE ELSE Head(releaseTimers[q]) > now
    /\ DisconnectTimeout(partial)

LimitNext ==
    \/ \E noteId \in NoteIds, candidates \in LimitCandidates, ks \in KeyStates :
          LimitNoteOn(noteId, candidates, ks[1], ks[2])
    \/ Tick
    \/ \E noteId \in NoteIds : NoteOffTimeout(noteId)
    \/ \E noteId \in NoteIds : DecayTimeout(noteId)
    \/ \E partial \in DOMAIN inUse : LimitDisconnectTimeout(partial)
    \/ Advance

LimitSpec == LimitInit /\ [][LimitNext]_vars

\* ---- C21
\* the adaptive limit that a noteOn in the current state computes
LimitNow == adaptiveMaxPartials(Len(available), Cardinality(DOMAIN inUse))

\* C21: every active voice has at most max-partials-per-voice (12) partials and
\* at most the adaptive limit computed at its noteOn: the list a noteOn
\* registers is within the limit computed from the pool as that noteOn found
\* it, the limit is at most 12, and no later step changes the list of a voice
C21_VoiceWithinLimit ==
    [][/\ \A id \in NoteIds :
            activeNotes'[id] # NoNote => Len(activeNotes'[id].partials) <= maxPartials
       /\ last'.op = "noteOn" =>
            /\ last'.limit = LimitNow
            /\ LimitNow <= maxPartials
            /\ activeNotes'[last'.id] # NoNote
            /\ Len(activeNotes'[last'.id].partials) <= LimitNow
       /\ \A id \in NoteIds :
            (activeNotes[id] # NoNote /\ activeNotes'[id] # NoNote
               /\ ~(last'.op = "noteOn" /\ last'.id = id))
              => activeNotes'[id].partials = activeNotes[id].partials]_vars

\* a noteOn found the pool more than 70% in use, computed a limit below 12,
\* had more candidates and free partials than that, and took exactly the limit
C21_Witness ==
    /\ last.op = "noteOn"
    /\ last.limit < maxPartials
    /\ last.free0 >= last.limit
    /\ last.requested = last.limit
    /\ Len(activeNotes[last.id].partials) = last.limit

\* a noteOn on a pool at most 70% in use took exactly 12 of more candidates
C21_WitnessFull ==
    /\ last.op = "noteOn"
    /\ last.limit = maxPartials
    /\ Len(activeNotes[last.id].partials) = maxPartials

\* ---- C22
\* the ids without a voice: never created, reclaimed, or stolen and reclaimed
InactiveIds == {id \in NoteIds : activeNotes[id] = NoNote}

\* no call on an id without a voice would change the synth
UnknownIdCallsAreNoOps ==
    \A id \in InactiveIds :
       /\ \A r \in ReleaseTimeCases, immediateCleanup \in BOOLEAN :
             noteOff(Cur, id, r, immediateCleanup, now) = Cur
       /\ \A keyDown, pedalDown \in BOOLEAN :
             updateNoteState(Cur, id, keyDown, pedalDown) = Cur
       /\ \A volume \in Volumes : setNoteVolume(Cur, id, volume, now) = Cur
       /\ rampNoteVolume(Cur, id, quietGain, SustainDecayTime, now) = Cur

\* C22: noteOff, updateNoteState, setNoteVolume and rampNoteVolume called with
\* an id that is not an active voice (never created, already reclaimed, or
\* stolen and reclaimed) leave active voices, pool, gains and timers as they
\* were: in every state for every such call, and on every step that makes one
C22_UnknownIdNoOp ==
    [][/\ UnknownIdCallsAreNoOps
       /\ (last'.op \in {"noteOff", "updateNoteState"} /\ activeNotes[last'.id] = NoNote)
            => Cur' = Cur]_vars

\* noteOff was called for an id that had a voice before and has none now, while
\* another voice is active and a timer is pending
C22_Witness ==
    /\ last.op = "noteOff"
    /\ ~last.immediate
    /\ last.id <= highest
    /\ activeNotes[last.id] = NoNote
    /\ ActiveIds(Cur) # {}
    /\ ~NoTimers

\* updateNoteState was called for an id that was never created
C22_WitnessNever ==
    /\ last.op = "updateNoteState"
    /\ last.id > highest
    /\ ActiveIds(Cur) # {}

\* ---- C23
\* S1 differs from S0 at most in the keyDown and pedalDown flags of voice id,
\* which are keyDown and pedalDown in S1
OnlyFlagsChanged(S0, S1, id, keyDown, pedalDown) ==
    /\ S1.inUse = S0.inUse
    /\ S1.available = S0.available
    /\ S1.gain = S0.gain
    /\ S1.pendingCleanups = S0.pendingCleanups
    /\ S1.releaseTimers = S0.releaseTimers
    /\ S1.noteOrder = S0.noteOrder
    /\ \A other \in NoteIds \ {id} : S1.activeNotes[other] = S0.activeNotes[other]
    /\ S1.activeNotes[id] # NoNote
    /\ S1.activeNotes[id].keyDown = keyDown
    /\ S1.activeNotes[id].pedalDown = pedalDown
    /\ S1.activeNotes[id].partials = S0.activeNotes[id].partials
    /\ S1.activeNotes[id].initialAmplitudes = S0.activeNotes[id].initialAmplitudes
    /\ S1.activeNotes[id].gainNode = S0.activeNotes[id].gainNode
    /\ S1.activeNotes[id].velocity = S0.activeNotes[id].velocity
    /\ S1.activeNotes[id].startTime = S0.activeNotes[id].startTime

\* C23: updateNoteState(id, keyDown, pedalDown) on an active voice sets that
\* voice's keyDown and pedalDown flags and changes nothing else: no partial is
\* acquired or released, no gain timeline and no cleanup or disconnect timer is
\* set or cancelled, every other voice is as it was; for a call in any state
\* and on every step that makes the call
C23_UpdateOnlyFlags ==
    [][/\ \A id \in ActiveIds(Cur), keyDown, pedalDown \in BOOLEAN :
            OnlyFlagsChanged(Cur, updateNoteState(Cur, id, keyDown, pedalDown),
                             id, keyDown, pedalDown)
       /\ (last'.op = "updateNoteState" /\ activeNotes[last'.id] # NoNote) =>
            /\ OnlyFlagsChanged(Cur, Cur', last'.id, activeNotes'[last'.id].keyDown,
                                activeNotes'[last'.id].pedalDown)
            /\ now' = now]_vars

\* updateNoteState released the key of a held voice that has partials and a
\* pending cleanup timer, next to another voice
C23_Witness ==
    /\ last.op = "updateNoteState"
    /\ activeNotes[last.id] # NoNote
    /\ ~activeNotes[last.id].keyDown
    /\ activeNotes[last.id].pedalDown
    /\ activeNotes[last.id].partials # <<>>
    /\ pendingCleanups[last.id] # NoTimer
    /\ ActiveIds(Cur) \ {last.id} # {}

\* ------------------------------ the profile cache on its own (ProfileSpec)
MaxProfileCalls == 3       \* calls of getSpectralProfile in a run

ProfileInit ==
    /\ SynthInit
    /\ selection = NoSelection
    /\ window \in Windows
    /\ spectralCache = [k \in {} |-> NoProfile]
    /\ profileLog = NoLog
    /\ OtherInit

GetSpectralProfile(baseFreq) ==
    LET r == getSpectralProfile(spectralCache, window, baseFreq, profileLog.built + 1)
    IN /\ profileLog.calls < MaxProfileCalls
       /\ spectralCache' = r.cache
       /\ profileLog' = [calls |-> profileLog.calls + 1,
                         built |-> profileLog.built + (IF r.built THEN 1 ELSE 0),
                         requested |-> profileLog.requested \cup {baseFreq},
                         freq |-> baseFreq,
                         returned |-> r.profile]
       /\ last' = Op("getSpectralProfile", Null, {})
       /\ UNCHANGED <<otherVars, inUse, available, gain, activeNotes, noteOrder,
                      pendingCleanups, cleanupTimers, releaseTimers, now, nextTick, calls, highest,
                      reused, released, probe, selection, window>>

ProfileNext == \E baseFreq \in ProfileFreqs : GetSpectralProfile(baseFreq)

ProfileSpec == ProfileInit /\ [][ProfileNext]_vars

\* ---- C24
\* the whole number of Hz nearest to a frequency given in tenths of Hz
NearestHz(f) == CHOOSE k \in 0 .. f : 10 * k - 5 <= f /\ f < 10 * k + 5

\* C24: getSpectralProfile(f) uses round(f) as the cache key. A call for a key
\* that is not cached builds one profile with 128 per-velocity config lists and
\* stores it under the key; a call for a cached key, with whatever frequency
\* that rounds to it, returns the stored profile, builds nothing and leaves the
\* cache as it is; no entry is ever removed or replaced; so the cache holds as
\* many profiles as distinct rounded fundamentals were requested, each built once
C24_ProfileCache ==
    [][/\ \A k \in DOMAIN spectralCache :
            k \in DOMAIN spectralCache' /\ spectralCache'[k] = spectralCache[k]
       /\ last'.op = "getSpectralProfile" =>
            LET key == NearestHz(profileLog'.freq)
            IN /\ key \in DOMAIN spectralCache'
               /\ profileLog'.returned = spectralCache'[key]
               /\ DOMAIN profileLog'.returned.configs = 0 .. 127
               /\ key \in DOMAIN spectralCache =>
                    /\ spectralCache' = spectralCache
                    /\ profileLog'.built = profileLog.built
               /\ key \notin DOMAIN spectralCache =>
                    /\ DOMAIN spectralCache' = DOMAIN spectralCache \cup {key}
                    /\ profileLog'.built = profileLog.built + 1
                    /\ profileLog'.returned.baseFreq = profileLog'.freq
       /\ DOMAIN spectralCache' = {NearestHz(f) : f \in profileLog'.requested}
       /\ Cardinality(DOMAIN spectralCache') = profileLog'.built
       /\ \A j, k \in DOMAIN spectralCache' :
            j # k => spectralCache'[j].serial # spectralCache'[k].serial]_vars

\* a call returned a profile that was built earlier for another frequency with
\* the same key, while a second key is cached too
C24_Witness ==
    /\ last.op = "getSpectralProfile"
    /\ profileLog.returned.baseFreq # profileLog.freq
    /\ Cardinality(DOMAIN spectralCache) = 2
    /\ profileLog.built = 2
    /\ profileLog.calls = 3

\* ---- C25
\* the number of harmonics computed for a cached profile
HarmonicsOf(profile) == Len(profile.configs[0])

\* C25: the number of harmonics computed for a spectral profile lies in 4..32
\* and depends on the pitch: a lower fundamental never gets fewer harmonics
\* than a higher one, and the bass fundamental A0 (27.5 Hz) gets more than the
\* treble fundamental C8 (4186 Hz)
C25_HarmonicCountByPitch ==
    \A j, k \in DOMAIN spectralCache :
       LET low == spectralCache[j]
           high == spectralCache[k]
       IN /\ \A v \in 0 .. 127 : Len(low.configs[v]) = HarmonicsOf(low)
          /\ HarmonicsOf(low) \in 4 .. 32
          /\ low.baseFreq < high.baseFreq => HarmonicsOf(low) >= HarmonicsOf(high)
          /\ (low.baseFreq = 275 /\ high.baseFreq = 41860)
               => HarmonicsOf(low) > HarmonicsOf(high)

\* ------------------------------------------------ C26: decay times by state
\* a run of calls of getPianoEnvelopeDecayTimes, and of the slider of the
\* frequency scaling; the module may be switched off, the settings object
\* may be missing
EnvelopeInit ==
    /\ SynthInit
    /\ selection = NoSelection
    /\ ProfilesInit
    /\ \E w \in EnvelopeSettings : w.frequencyScaling = 10
                                   /\ envelope = [NoEnvelope EXCEPT !.w = w]
    /\ stolenAt = [id \in NoteIds |-> NoSteal]
    /\ WrapperInit

GetPianoEnvelopeDecayTimes(keyFrequency, velocity, pedalState, keyState) ==
    /\ envelope' = [envelope EXCEPT
                      !.called = TRUE,
                      !.keyFrequency = keyFrequency,
                      !.velocity = velocity,
                      !.pedalState = pedalState,
                      !.keyState = keyState,
                      !.result = getPianoEnvelopeDecayTimes(keyFrequency, velocity,
                                     pedalState, keyState, envelope.w)]
    /\ last' = Op("getPianoEnvelopeDecayTimes", Null, {})
    /\ UNCHANGED <<stealVars, wrapperVars, profileVars, inUse, available, gain, activeNotes,
                   noteOrder, pendingCleanups, cleanupTimers, releaseTimers, now, nextTick, calls,
                   highest, reused, released, probe, selection>>

\* the input handler of the frequency scaling slider
SetFrequencyScaling(value) ==
    /\ envelope.w.settings
    /\ envelope.w.frequencyScaling # value
    /\ envelope' = [NoEnvelope EXCEPT !.w = [envelope.w EXCEPT !.frequencyScaling = value]]
    /\ last' = Op("setFrequencyScaling", Null, {})
    /\ UNCHANGED <<stealVars, wrapperVars, profileVars, inUse, available, gain, activeNotes,
                   noteOrder, pendingCleanups, cleanupTimers, releaseTimers, now, nextTick, calls,
                   highest, reused, released, probe, selection>>

EnvelopeNext ==
    \/ \E keyFrequency \in EnvelopeFreqs, velocity \in EnvelopeVelocities,
          pedalState \in BOOLEAN, keyState \in BOOLEAN :
          GetPianoEnvelopeDecayTimes(keyFrequency, velocity, pedalState, keyState)
    \/ \E value \in FrequencyScalings : SetFrequencyScaling(value)

EnvelopeSpec == EnvelopeInit /\ [][EnvelopeNext]_vars

\* the decay times that the four key and pedal states get for the frequency
\* and velocity of the call just made: <<key+pedal, key only, pedal only, neither>>
TimesByState ==
    LET T(pedalState, keyState) ==
            getPianoEnvelopeDecayTimes(envelope.keyFrequency, envelope.velocity,
                                       pedalState, keyState, envelope.w)
    IN <<T(TRUE, TRUE), T(FALSE, TRUE), T(TRUE, FALSE), T(FALSE, FALSE)>>

Ordered(times) ==
    \A i \in 1 .. 3 : /\ times[i].fastDecay >= times[i + 1].fastDecay
                      /\ times[i].slowDecay >= times[i + 1].slowDecay

\* C26: for every frequency and velocity the decay times of the key and pedal
\* states are ordered key+pedal >= key only >= pedal only >= neither, the
\* fast ones and the slow ones, so that a voice with key and pedal down keeps
\* its gains above the silence threshold at least as long as one with neither
C26_DecayTimesOrdered ==
    envelope.called =>
        /\ envelope.result \in Range(TimesByState)
        /\ Ordered(TimesByState)

\* ------------------------------------------------ C27: a stolen voice goes
StealPeriod == 100         \* the callers call at multiples of StealPeriod ms
StealCalls == 3            \* calls of noteOn in a run

\* noteOn calls only, closer together than the forced release lasts, each
\* with a note id that was never used
StealNoteOn(noteId, candidates, keyDown, pedalDown) ==
    LET r == noteOn(Cur, noteId, candidates, 100, keyDown, pedalDown, now)
    IN /\ calls < StealCalls
       /\ now % StealPeriod = 0
       /\ noteId = highest + 1
       /\ NoteOnCall(noteId, candidates, 100, keyDown, pedalDown)
       /\ stolenAt' = [id \in NoteIds |->
                          IF id \in Range(r.stolen) /\ stolenAt[id] = NoSteal
                          THEN [absent |-> FALSE, t |-> now, partials |-> PartsOf(Cur, id)]
                          ELSE stolenAt[id]]
       /\ UNCHANGED wrapperVars

StealDeadlines ==
    {nextTick}
    \cup (IF calls < StealCalls THEN {(now \div StealPeriod + 1) * StealPeriod} ELSE {})
    \cup CleanupDues
    \cup {Head(releaseTimers[i]) : i \in {x \in DOMAIN releaseTimers : releaseTimers[x] # <<>>}}

StealAdvance ==
    /\ \A d \in StealDeadlines : d > now
    /\ \E d \in StealDeadlines :
          /\ \A e \in StealDeadlines : d <= e
          /\ d <= MaxTime
          /\ now' = d
    /\ last' = Op("advance", Null, {})
    /\ UNCHANGED <<otherVars, profileVars, selection, inUse, available, gain, activeNotes,
                   noteOrder, pendingCleanups, cleanupTimers, releaseTimers, nextTick, calls, highest,
                   reused, released, probe>>

StealNext ==
    \/ \E noteId \in NoteIds, candidates \in CandidateCounts, ks \in KeyStates :
          StealNoteOn(noteId, candidates, ks[1], ks[2])
    \/ Tick
    \/ \E noteId \in NoteIds : NoteOffTimeout(noteId)
    \/ \E noteId \in NoteIds : DecayTimeout(noteId)
    \/ \E partial \in Partials : DisconnectTimeout(partial)
    \/ StealAdvance

StealSpec == Init /\ [][StealNext]_vars

\* the partial is free, or a voice other than id holds it
GivenBack(id, partial) ==
    inUse[partial] =>
        \E other \in ActiveIds(Cur) \ {id} : partial \in PartsOf(Cur, other)

\* C27: a voice chosen by voice stealing gets a forced release of 0.05 s and
\* is reclaimed quickly: it has left the active voices within 150 ms of being
\* stolen and its partials are back in the pool 15 ms later, whatever noteOn
\* calls and steal attempts arrive in the meantime
C27_StolenVoiceReclaimed ==
    \A id \in NoteIds :
        stolenAt[id] # NoSteal =>
            /\ activeNotes[id] # NoNote =>
                  /\ now <= stolenAt[id].t + stealRelease + cleanupGrace
                  /\ pendingCleanups[id] # NoTimer
            /\ now > stolenAt[id].t + stealRelease + cleanupGrace + disconnectDelay =>
                  \A partial \in stolenAt[id].partials : GivenBack(id, partial)

\* ------------------------------------------ C28: a voice held for ever ends
HoldPoolSize == 12         \* partials in the pool
HoldTime == 40000          \* the clock stops advancing after HoldTime ms

\* h^0.7 and h^1.5 for h = 1..16, in thousandths
harmonicPow07 == <<1000, 1625, 2158, 2639, 3085, 3505, 3905, 4287, 4656, 5012, 5358, 5694,
                   6022, 6343, 6657, 6964>>
harmonicPow15 == <<1000, 2828, 5196, 8000, 11180, 14697, 18520, 22627, 27000, 31623,
                   36483, 41569, 46872, 52383, 58095, 64000>>

\* Math.exp(x) is exactly 0 for x below -745.133 (the smallest double is
\* 4.9e-324), and so is a product of doubles whose logarithms add up to less
expUnderflow == 745133     \* in thousandths

\* getThreePhaseDecay(harmonicNum, time) with strength 1.0: minus the
\* logarithm of the result, in thousandths; time in ms
getThreePhaseDecay(harmonicNum, time) ==
    IF time < 5 THEN (time * harmonicNum * harmonicNum * 1000) \div 5
    ELSE IF time < 50 THEN 1000 + ((time - 5) * harmonicPow15[harmonicNum]) \div 45
    ELSE 1000 + harmonicPow15[harmonicNum]
              + ((time - 50) * harmonicPow07[harmonicNum]) \div 2000

\* the two-phase decay of getHarmonicEvolution, as minus the logarithm
twoPhaseDecay(harmonic, time, baseState) ==
    LET harmonicFactor == harmonicPow07[harmonic]
    IN IF time < baseState.fastDecay
       THEN (time * harmonicFactor) \div baseState.fastDecay
       ELSE harmonicFactor
            + ((time - baseState.fastDecay) * harmonicFactor) \div (2 * baseState.slowDecay)

\* getHighHarmonicTransientFactor(harmonicNum, time) with strength 1.0:
\* attackPeak in thousandths, and minus the logarithm of decay
getHighHarmonicTransientFactor(harmonicNum, time) ==
    IF harmonicNum <= 8 THEN [attackPeak |-> 1000, decay |-> 0]
    ELSE [attackPeak |-> Min(1000, time * 500),
          decay |-> (time * harmonicNum * harmonicNum * 10) \div 32]

\* getHarmonicEvolution(time, baseState)[harmonic] for harmonic in 1..16, with
\* physicsSettings.harmonicProfileEvolution on (the default): the rate times
\* GainScale, and whether the double is exactly 0
getHarmonicEvolution(time, baseState, harmonic) ==
    LET transient == getHighHarmonicTransientFactor(harmonic, time)
        exponent == (IF harmonic > 6 THEN getThreePhaseDecay(harmonic, time)
                     ELSE twoPhaseDecay(harmonic, time, baseState))
                    + transient.decay
        resonanceFactor == 1000 - (3 * (1000 - baseState.resonance) * harmonic) \div 160
        decayRate == (((expDecay(exponent, 1000) * transient.attackPeak) \div 1000)
                         * resonanceFactor) \div 1000
    IN [zero |-> transient.attackPeak = 0 \/ exponent > expUnderflow,
        value |-> Max(0, Min(GainScale, decayRate))]

\* harmonicRates[harmonicNum] || 1.0: an entry that is missing or 0 gives 1.0
decayRateOrOne(time, baseState, harmonicNum) ==
    IF harmonicNum \in 1 .. 16
    THEN LET r == getHarmonicEvolution(time, baseState, harmonicNum)
         IN IF r.zero THEN GainScale ELSE r.value
    ELSE GainScale

\* the notes of this run: note id 1 is A4 (12 of its harmonics pass the
\* filter of selectPartials), note id 2 is F7 (2.8 kHz: 8 are below 24 kHz)
HoldIds == {1, 2}
frequencyOf(noteId) == IF noteId = 1 THEN 4400 ELSE 28000
candidatesOf(noteId) == Min(maxPartials, 240000 \div frequencyOf(noteId))

\* the partial gains after the tick has visited the voice, every harmonic
\* with its own rate
evolveVoiceByHarmonic(S, noteId, t, w) ==
    LET note == S.activeNotes[noteId]
        baseState == getPianoEnvelopeDecayTimes(frequencyOf(noteId), note.velocity,
                                                note.pedalDown, note.keyDown, w)
    IN [i \in DOMAIN S.gain |->
          IF \E k \in 1 .. Len(note.partials) :
                note.partials[k] = i /\ k <= Len(note.initialAmplitudes)
          THEN LET k == CHOOSE k \in 1 .. Len(note.partials) : note.partials[k] = i
                   info == note.initialAmplitudes[k]
               IN evolveGain(S.gain[i], info,
                             decayRateOrOne(t - note.startTime, baseState,
                                            info.harmonicNum), t)
          ELSE S.gain[i]]

RECURSIVE evolveFromByHarmonic(_, _, _, _)
\* the loop over activeNotes of updateHarmonicEvolution, with
\* window.getPianoEnvelopeDecayTimes and window.getHarmonicEvolution there
evolveFromByHarmonic(S, order, t, w) ==
    IF order = <<>> THEN S
    ELSE LET noteId == Head(order)
             note == S.activeNotes[noteId]
             S1 == [S EXCEPT !.gain = evolveVoiceByHarmonic(S, noteId, t, w)]
             S2 == IF decayed(S1, note, t) /\ S1.pendingCleanups[noteId] = NoTimer
                   THEN [S1 EXCEPT
                           !.pendingCleanups[noteId] =
                               [kind |-> "decay", due |-> t + decayCheckDelay],
                           !.cleanupTimers[noteId] =
                               Append(S1.cleanupTimers[noteId],
                                      [kind |-> "decay", due |-> t + decayCheckDelay])]
                   ELSE S1
         IN evolveFromByHarmonic(S2, Tail(order), t, w)

HoldInit ==
    SynthInitWith(HoldPoolSize) /\ selection = NoSelection /\ ProfilesInit /\ OtherInit

\* one key is pressed at time 0 and never released
HoldNoteOn(noteId, pedalDown) ==
    /\ calls = 0
    /\ now = 0
    /\ NoteOnCall(noteId, candidatesOf(noteId), 100, TRUE, pedalDown)
    /\ UNCHANGED <<stealVars, wrapperVars>>

HoldTick ==
    /\ now = nextTick
    /\ Becomes(evolveFromByHarmonic(Cur, noteOrder, now, envelope.w))
    /\ nextTick' = now + tickPeriod
    /\ last' = Op("tick", Null, {})
    /\ UNCHANGED <<otherVars, profileVars, selection, now, calls, highest, reused,
                   released, probe>>

HoldDeadlines ==
    {nextTick}
    \cup CleanupDues
    \cup {Head(releaseTimers[i]) : i \in {x \in DOMAIN releaseTimers : releaseTimers[x] # <<>>}}

HoldAdvance ==
    /\ \A d \in HoldDeadlines : d > now
    /\ \E d \in HoldDeadlines :
          /\ \A e \in HoldDeadlines : d <= e
          /\ d <= HoldTime
          /\ now' = d
    /\ last' = Op("advance", Null, {})
    /\ UNCHANGED <<otherVars, profileVars, selection, inUse, available, gain, activeNotes,
                   noteOrder, pendingCleanups, cleanupTimers, releaseTimers, nextTick, calls, highest,
                   reused, released, probe>>

HoldNext ==
    \/ \E noteId \in HoldIds, pedalDown \in BOOLEAN : HoldNoteOn(noteId, pedalDown)
    \/ HoldTick
    \/ \E noteId \in NoteIds : DecayTimeout(noteId)
    \/ \E partial \in DOMAIN inUse : LimitDisconnectTimeout(partial)
    \/ HoldAdvance

HoldSpec == HoldInit /\ [][HoldNext]_vars

\* a step of the interval timer, told by what it does to the timer itself:
\* the steps of HoldSpec that satisfy it are the HoldTick steps
TickFires == now = nextTick /\ nextTick' = now + tickPeriod

\* the interval timer and the timeouts fire when they are due, and time
\* passes; nothing obliges the player to press a key
HoldFairSpec ==
    /\ HoldSpec
    /\ WF_nextTick(TickFires)
    /\ WF_vars(\E noteId \in NoteIds : DecayTimeout(noteId))
    /\ WF_vars(\E partial \in DOMAIN inUse : LimitDisconnectTimeout(partial))
    /\ WF_vars(HoldAdvance)

HeldVoices == {id \in HoldIds : activeNotes[id] # NoNote /\ activeNotes[id].keyDown}

AllReclaimed == ActiveIds(Cur) = {} /\ \A partial \in DOMAIN inUse : ~inUse[partial]

\* C28: a voice whose key is held and that never gets a noteOff is eventually
\* reclaimed by the scheduler: with the ticks running, all its partial gains
\* fall below the silence threshold, whatever their harmonic numbers, the
\* voice is destroyed and its partials are back in the pool
C28_HeldVoiceReclaimed == (HeldVoices # {}) ~> AllReclaimed

\* ------------------------------------ PolySynthWrapper and the key handlers
WrapperCalls == 4          \* calls of the key and pedal handlers in a run
releaseLead == 200         \* endTime - 0.2 : the release comes 200 ms before the end

\* a call that the wrapper makes on the synth
SynthCall(op, noteId, releaseTime, keyDown, pedalDown) ==
    [op |-> op, noteId |-> noteId, releaseTime |-> releaseTime,
     keyDown |-> keyDown, pedalDown |-> pedalDown]

\* this.activeVoices.get(noteName), [] for a missing entry
voicesOf(W, noteName) ==
    IF W.activeVoices[noteName] = NoEntry THEN <<>> ELSE W.activeVoices[noteName].voices

\* setNoteEnvelope(noteName, envelope); only the release of the envelope is kept
setNoteEnvelope(W, noteName, envelopeRelease) ==
    [W EXCEPT !.noteEnvelopes[noteName] = [absent |-> FALSE, release |-> envelopeRelease]]

\* a triggerAttack that reads the counter and does not advance it
triggerAttackSameId(W, S, noteName, windowPedal, t) ==
    LET noteId == W.noteIdCounter + 1
        noteEnvelope == IF W.noteEnvelopes[noteName] = NoEntry THEN envelopeDefaults
                    ELSE W.noteEnvelopes[noteName]
        pedalDown == W.sustainPedalActive \/ windowPedal
        r == noteOn(S, noteId, FewCandidates, 100, TRUE, pedalDown, t)
    IN [W |-> [W EXCEPT
                 !.activeVoices[noteName] =
                     [absent |-> FALSE,
                      voices |-> Append(voicesOf(W, noteName),
                                        [noteId |-> noteId, keyDown |-> TRUE,
                                         pedalDown |-> pedalDown])],
                 !.noteEnvelopes[noteName] = noteEnvelope],
        S |-> r.S,
        issued |-> <<SynthCall("noteOn", noteId, 0, TRUE, pedalDown)>>]

\* triggerAttack(noteName, time, velocity); windowPedal is window.sustainPedalActive.
\* Note ids are opaque: the counter value c stands for the model's id c + 1.
triggerAttack(W, S, noteName, windowPedal, t) ==
    LET noteId == W.noteIdCounter + 1
        noteEnvelope == IF W.noteEnvelopes[noteName] = NoEntry THEN envelopeDefaults
                    ELSE W.noteEnvelopes[noteName]
        pedalDown == W.sustainPedalActive \/ windowPedal
        r == noteOn(S, noteId, FewCandidates, 100, TRUE, pedalDown, t)
    IN [W |-> [W EXCEPT
                 !.noteIdCounter = W.noteIdCounter + 1,
                 !.activeVoices[noteName] =
                     [absent |-> FALSE,
                      voices |-> Append(voicesOf(W, noteName),
                                        [noteId |-> noteId, keyDown |-> TRUE,
                                         pedalDown |-> pedalDown])],
                 !.noteEnvelopes[noteName] = noteEnvelope],
        S |-> r.S,
        issued |-> <<SynthCall("noteOn", noteId, 0, TRUE, pedalDown)>>]

\* envelope.release || 0.5
releaseOrDefault(envelopeRelease) ==
    IF envelopeRelease = 0 THEN 500 ELSE envelopeRelease

\* a triggerRelease that, with the pedal down, tells the synth the key is up
\* and leaves the pedal flag of the voice as it is
triggerReleaseKeyOnly(W, S, noteName, windowPedal, t) ==
    LET voices == voicesOf(W, noteName)
        pedalDown == W.sustainPedalActive \/ windowPedal
        voice == voices[Len(voices)]
        noteEnvelope == IF W.noteEnvelopes[noteName] = NoEntry THEN envelopeDefaults
                        ELSE W.noteEnvelopes[noteName]
        releaseTime == releaseOrDefault(noteEnvelope.release)
        popped == SubSeq(voices, 1, Len(voices) - 1)
    IN IF voices = <<>> THEN [W |-> W, S |-> S, issued |-> <<>>]
       ELSE IF pedalDown
       THEN [W |-> [W EXCEPT !.activeVoices[noteName].voices[Len(voices)].keyDown = FALSE],
             S |-> IF S.activeNotes[voice.noteId] = NoNote THEN S
                   ELSE [S EXCEPT !.activeNotes[voice.noteId].keyDown = FALSE],
             issued |-> <<SynthCall("updateNoteState", voice.noteId, 0, FALSE, pedalDown)>>]
       ELSE [W |-> IF popped = <<>>
                   THEN [W EXCEPT !.activeVoices[noteName] = NoEntry,
                                  !.noteEnvelopes[noteName] = NoEntry]
                   ELSE [W EXCEPT !.activeVoices[noteName].voices = popped],
             S |-> noteOff(S, voice.noteId, releaseTime, FALSE, t),
             issued |-> <<SynthCall("noteOff", voice.noteId, releaseTime, FALSE, FALSE)>>]

\* triggerRelease(noteName, time)
triggerRelease(W, S, noteName, windowPedal, t) ==
    LET voices == voicesOf(W, noteName)
        pedalDown == W.sustainPedalActive \/ windowPedal
        voice == voices[Len(voices)]
        noteEnvelope == IF W.noteEnvelopes[noteName] = NoEntry THEN envelopeDefaults
                    ELSE W.noteEnvelopes[noteName]
        releaseTime == releaseOrDefault(noteEnvelope.release)
        popped == SubSeq(voices, 1, Len(voices) - 1)
    IN IF voices = <<>> THEN [W |-> W, S |-> S, issued |-> <<>>]
       ELSE IF pedalDown
       THEN [W |-> [W EXCEPT !.activeVoices[noteName].voices[Len(voices)].keyDown = FALSE],
             S |-> updateNoteState(S, voice.noteId, FALSE, pedalDown),
             issued |-> <<SynthCall("updateNoteState", voice.noteId, 0, FALSE, pedalDown)>>]
       ELSE [W |-> IF popped = <<>>
                   THEN [W EXCEPT !.activeVoices[noteName] = NoEntry,
                                  !.noteEnvelopes[noteName] = NoEntry]
                   ELSE [W EXCEPT !.activeVoices[noteName].voices = popped],
             S |-> noteOff(S, voice.noteId, releaseTime, FALSE, t),
             issued |-> <<SynthCall("noteOff", voice.noteId, releaseTime, FALSE, FALSE)>>]

\* voices.forEach(voice => this.synth.rampNoteVolume(voice.noteId, ...))
RECURSIVE rampVoices(_, _, _, _, _)
rampVoices(S, voices, targetVolume, duration, t) ==
    IF voices = <<>> THEN S
    ELSE rampVoices(rampNoteVolume(S, Head(voices).noteId, targetVolume, duration, t),
                    Tail(voices), targetVolume, duration, t)

\* PolySynthWrapper.rampNoteVolume(noteName, targetVolume, duration)
rampNoteVolumeByName(W, S, noteName, targetVolume, duration, t) ==
    rampVoices(S, voicesOf(W, noteName), targetVolume, duration, t)

\* the forEach of automation.cancel(): every voice of the note keeps the
\* volume it has
RECURSIVE freezeVoices(_, _, _)
freezeVoices(S, voices, t) ==
    IF voices = <<>> THEN S
    ELSE freezeVoices(cancelSustainDecay(S, Head(voices).noteId, t), Tail(voices), t)

\* the releaseTimeout of an automation: a live setTimeout
Timeout(midiNote, startTime, due) ==
    [midiNote |-> midiNote, startTime |-> startTime, due |-> due]

\* the releaseTimeout of the automation that the Map has for midiNote
timeoutOf(M, midiNote) ==
    Timeout(midiNote, M.sustainDecayAutomations[midiNote].startTime,
            M.sustainDecayAutomations[midiNote].due)

\* automation.cancel() of the automation of midiNote, if the Map has one
cancelAutomation(M, W, S, midiNote, t) ==
    IF M.sustainDecayAutomations[midiNote] = NoEntry THEN [M |-> M, S |-> S]
    ELSE [M |-> [M EXCEPT !.releaseTimeouts =
                              clearTimeout(M.releaseTimeouts, timeoutOf(M, midiNote))],
          S |-> freezeVoices(S, voicesOf(W, midiNote), t)]

\* a startSustainDecay that leaves the existing automation of the note alone
startWithoutCancel(M, W, S, midiNote, t) ==
    LET due == t + SustainDecayTime - releaseLead
    IN [M |-> [M EXCEPT
                 !.sustainDecayAutomations[midiNote] =
                     [absent |-> FALSE, startTime |-> t, due |-> due],
                 !.releaseTimeouts = Append(M.releaseTimeouts, Timeout(midiNote, t, due))],
        S |-> rampNoteVolumeByName(W, S, midiNote, quietGain, SustainDecayTime, t)]

\* startSustainDecay(midiNote, noteName, dependencies), sustain decay enabled
startSustainDecay(M, W, S, midiNote, t) ==
    LET c == cancelAutomation(M, W, S, midiNote, t)
        due == t + SustainDecayTime - releaseLead
    IN [M |-> [c.M EXCEPT
                 !.sustainDecayAutomations[midiNote] =
                     [absent |-> FALSE, startTime |-> t, due |-> due],
                 !.releaseTimeouts = Append(c.M.releaseTimeouts, Timeout(midiNote, t, due))],
        S |-> rampNoteVolumeByName(W, c.S, midiNote, quietGain, SustainDecayTime, t)]

\* Set.add and Set.delete of sustainedNotes, which keeps insertion order
addNote(notes, midiNote) ==
    IF midiNote \in Range(notes) THEN notes ELSE Append(notes, midiNote)

deleteNote(notes, midiNote) == SelectSeq(notes, LAMBDA n : n # midiNote)

\* the handlers are called at most WrapperCalls times, at multiples of CallPeriod
WrapperCanCall ==
    /\ calls < WrapperCalls
    /\ now % CallPeriod = 0

\* a handler has run with the outcome r
Handled(r, op, id) ==
    /\ calls' = calls + 1
    /\ main' = r.M
    /\ wrapper' = r.W
    /\ Becomes(r.S)
    /\ issued' = r.issued
    /\ last' = Op(op, id, {})
    /\ UNCHANGED <<envelopeVars, stealVars, profileVars, selection, now, nextTick,
                   highest, reused, released, probe>>

\* handleNoteOn_OLD(midiNote, velocity); envelopeRelease is the release of the
\* envelope settings. The note has one voice name (its own), so unisonVoices
\* is left out.
handleNoteOn(M, W, S, midiNote, envelopeRelease, t) ==
    LET windowPedal == M.sustainPedalActive
        r1 == IF midiNote \in M.activeNotes
              THEN triggerRelease(W, S, midiNote, windowPedal, t)
              ELSE [W |-> W, S |-> S, issued |-> <<>>]
        r2 == triggerAttack(setNoteEnvelope(r1.W, midiNote, envelopeRelease), r1.S,
                            midiNote, windowPedal, t)
    IN [M |-> [M EXCEPT
                 !.physicallyHeldNotes = M.physicallyHeldNotes \cup {midiNote},
                 !.sustainedNotes = deleteNote(M.sustainedNotes, midiNote),
                 !.activeNotes = M.activeNotes \cup {midiNote}],
        W |-> r2.W,
        S |-> r2.S,
        issued |-> r1.issued \o r2.issued]

\* a key that is up is pressed
HandleNoteOn(midiNote, envelopeRelease) ==
    /\ WrapperCanCall
    /\ midiNote \notin main.physicallyHeldNotes
    /\ wrapper.noteIdCounter < MaxNoteId
    /\ Handled(handleNoteOn(main, wrapper, Cur, midiNote, envelopeRelease, now),
               "handleNoteOn", midiNote)

\* handleNoteOff_OLD(midiNote)
handleNoteOff(M, W, S, midiNote, t) ==
    LET windowPedal == M.sustainPedalActive
        c == cancelAutomation(M, W, S, midiNote, t)
        r == triggerRelease(W, c.S, midiNote, windowPedal, t)
        held == M.physicallyHeldNotes \ {midiNote}
        d == startSustainDecay(
                 [M EXCEPT !.physicallyHeldNotes = held,
                           !.sustainedNotes = addNote(M.sustainedNotes, midiNote)],
                 W, S, midiNote, t)
    IN IF ~M.sustainPedalActive
       THEN [M |-> [c.M EXCEPT
                      !.physicallyHeldNotes = held,
                      !.sustainDecayAutomations[midiNote] = NoEntry,
                      !.activeNotes = M.activeNotes \ {midiNote},
                      !.sustainedNotes = deleteNote(M.sustainedNotes, midiNote)],
             W |-> r.W,
             S |-> r.S,
             issued |-> r.issued]
       ELSE [M |-> d.M, W |-> W, S |-> d.S, issued |-> <<>>]

\* a key that is down is released
HandleNoteOff(midiNote) ==
    /\ WrapperCanCall
    /\ midiNote \in main.physicallyHeldNotes
    /\ Handled(handleNoteOff(main, wrapper, Cur, midiNote, now), "handleNoteOff", midiNote)

\* a release of the first of the sustained notes only
releaseHeadOnly(M, W, S, notesToRelease, t) ==
    IF notesToRelease = <<>> THEN [M |-> M, W |-> W, S |-> S, issued |-> <<>>]
    ELSE LET midiNote == Head(notesToRelease)
             c == cancelAutomation(M, W, S, midiNote, t)
             r == triggerRelease(W, c.S, midiNote, M.sustainPedalActive, t)
         IN [M |-> [c.M EXCEPT
                      !.sustainDecayAutomations[midiNote] = NoEntry,
                      !.activeNotes = M.activeNotes \ {midiNote},
                      !.sustainedNotes = deleteNote(M.sustainedNotes, midiNote)],
             W |-> r.W, S |-> r.S, issued |-> r.issued]

\* the notesToRelease.forEach of handleControlChange, the pedal being up by then
RECURSIVE releaseSustained(_, _, _, _, _)
releaseSustained(M, W, S, notesToRelease, t) ==
    IF notesToRelease = <<>> THEN [M |-> M, W |-> W, S |-> S, issued |-> <<>>]
    ELSE LET midiNote == Head(notesToRelease)
             c == cancelAutomation(M, W, S, midiNote, t)
             r == triggerRelease(W, c.S, midiNote, M.sustainPedalActive, t)
             rest == releaseSustained(
                         [c.M EXCEPT
                            !.sustainDecayAutomations[midiNote] = NoEntry,
                            !.activeNotes = M.activeNotes \ {midiNote},
                            !.sustainedNotes = deleteNote(M.sustainedNotes, midiNote)],
                         r.W, r.S, Tail(notesToRelease), t)
         IN [rest EXCEPT !.issued = r.issued \o rest.issued]

\* handleControlChange(64, value); isNowActive is value >= 64. The synth has
\* no setSustainPedal, so the wrapper and the voices are not told.
handleControlChange(M, W, S, isNowActive, t) ==
    LET wasActive == M.sustainPedalActive
        M1 == [M EXCEPT !.sustainPedalActive = isNowActive]
    IN IF wasActive /\ ~isNowActive
       THEN releaseSustained(M1, W, S, M.sustainedNotes, t)
       ELSE [M |-> M1, W |-> W, S |-> S, issued |-> <<>>]

\* a controller 64 message arrives
HandleControlChange(isNowActive) ==
    /\ WrapperCanCall
    /\ Handled(handleControlChange(main, wrapper, Cur, isNowActive, now),
               "handleControlChange", Null)

\* the live releaseTimeout timers of midiNote that are due
DueTimeouts(midiNote) ==
    SelectSeq(main.releaseTimeouts,
              LAMBDA releaseTimeout : /\ releaseTimeout.midiNote = midiNote
                                      /\ releaseTimeout.due <= now)

\* a sustain-decay timer of midiNote is due
TimerDue(midiNote) == DueTimeouts(midiNote) # <<>>

\* the condition of the timer callback of startSustainDecay
StillSustained(midiNote) ==
    /\ midiNote \in Range(main.sustainedNotes)
    /\ midiNote \notin main.physicallyHeldNotes

\* the releaseTimeout callback of startSustainDecay, for the timer of
\* midiNote that is due first
SustainDecayTimeout(midiNote) ==
    LET r == triggerRelease(wrapper, Cur, midiNote, main.sustainPedalActive, now)
        fired == clearTimeout(main.releaseTimeouts, Head(DueTimeouts(midiNote)))
    IN /\ TimerDue(midiNote)
       /\ IF StillSustained(midiNote)
          THEN /\ main' = [main EXCEPT
                             !.releaseTimeouts = fired,
                             !.activeNotes = main.activeNotes \ {midiNote},
                             !.sustainedNotes = deleteNote(main.sustainedNotes, midiNote),
                             !.sustainDecayAutomations[midiNote] = NoEntry]
               /\ wrapper' = r.W
               /\ Becomes(r.S)
               /\ issued' = r.issued
          ELSE /\ main' = [main EXCEPT !.releaseTimeouts = fired]
               /\ wrapper' = wrapper
               /\ Becomes(Cur)
               /\ issued' = <<>>
       /\ last' = Op("sustainDecayTimeout", midiNote, {})
       /\ UNCHANGED <<envelopeVars, stealVars, profileVars, selection, now, nextTick,
                      calls, highest, reused, released, probe>>

\* the due times of all live timers, and the next instant of the handlers
WrapperDeadlines ==
    {nextTick}
    \cup (IF calls < WrapperCalls THEN {(now \div CallPeriod + 1) * CallPeriod} ELSE {})
    \cup CleanupDues
    \cup {Head(releaseTimers[i]) : i \in {x \in DOMAIN releaseTimers : releaseTimers[x] # <<>>}}
    \cup {main.releaseTimeouts[k].due : k \in 1 .. Len(main.releaseTimeouts)}

\* time passes until the next timer is due
WrapperAdvance ==
    /\ \A d \in WrapperDeadlines : d > now
    /\ \E d \in WrapperDeadlines :
          /\ \A e \in WrapperDeadlines : d <= e
          /\ d <= MaxTime
          /\ now' = d
    /\ last' = Op("advance", Null, {})
    /\ UNCHANGED <<otherVars, profileVars, selection, inUse, available, gain, activeNotes,
                   noteOrder, pendingCleanups, cleanupTimers, releaseTimers, nextTick, calls, highest,
                   reused, released, probe>>

WrapperNext ==
    \/ \E midiNote \in MidiNotes, envelopeRelease \in ReleaseTimes :
          HandleNoteOn(midiNote, envelopeRelease)
    \/ \E midiNote \in MidiNotes : HandleNoteOff(midiNote)
    \/ \E isNowActive \in BOOLEAN : HandleControlChange(isNowActive)
    \/ \E midiNote \in MidiNotes : SustainDecayTimeout(midiNote)
    \/ Tick
    \/ \E noteId \in NoteIds : NoteOffTimeout(noteId)
    \/ \E noteId \in NoteIds : DecayTimeout(noteId)
    \/ \E partial \in Partials : LimitDisconnectTimeout(partial)
    \/ WrapperAdvance

WrapperSpec == Init /\ [][WrapperNext]_vars

\* ---------------------------------- C29: the sustain-decay timer releases
\* the call of noteOff that the last handler made for the voice noteId, if any
NoteOffIssued(calls1, noteId) ==
    \E k \in 1 .. Len(calls1) : calls1[k].op = "noteOff" /\ calls1[k].noteId = noteId

\* midiNote is in none of activeNotes, sustainedNotes, sustainDecayAutomations
Forgotten(M, midiNote) ==
    /\ midiNote \notin M.activeNotes
    /\ midiNote \notin Range(M.sustainedNotes)
    /\ M.sustainDecayAutomations[midiNote] = NoEntry

\* C29: when the sustain-decay timer of a note fires while the note is in
\* sustainedNotes and not in physicallyHeldNotes, the note is released: a
\* noteOff is issued to the synth for its most recent voice, a voice that the
\* synth still has waits for its release cleanup, and the note is removed from
\* activeNotes, sustainedNotes and sustainDecayAutomations.
C29_TimerReleasesNote ==
    [][\A midiNote \in MidiNotes :
          (SustainDecayTimeout(midiNote) /\ StillSustained(midiNote)) =>
             LET voices == voicesOf(wrapper, midiNote)
                 noteId == voices[Len(voices)].noteId
             IN /\ voices # <<>>
                /\ NoteOffIssued(issued', noteId)
                /\ activeNotes[noteId] # NoNote =>
                      (pendingCleanups'[noteId] # NoTimer
                       /\ pendingCleanups'[noteId].kind = "noteOff")
                /\ Forgotten(main', midiNote)]_vars

\* ------------------------------------------- C30: what triggerRelease does
\* triggerRelease(noteName) called now
ReleaseNow(noteName) ==
    triggerRelease(wrapper, Cur, noteName, main.sustainPedalActive, now)

\* the wrapper W apart from its entry for noteName in activeVoices
OtherVoices(W, noteName) == [W EXCEPT !.activeVoices[noteName] = NoEntry]

\* with no tracked voice for the note, triggerRelease does nothing
NothingWithoutVoice(noteName) ==
    voicesOf(wrapper, noteName) = <<>> =>
        /\ ReleaseNow(noteName).W = wrapper
        /\ ReleaseNow(noteName).S = Cur
        /\ ReleaseNow(noteName).issued = <<>>

\* with the pedal up, triggerRelease removes the most recent voice from the
\* tracking, issues noteOff for it with the release time of the note, and
\* deletes the entries of the note once no voice remains
PedalUpRelease(noteName) ==
    LET voices == voicesOf(wrapper, noteName)
        voice == voices[Len(voices)]
        r == ReleaseNow(noteName)
        releaseTime == wrapper.noteEnvelopes[noteName].release
    IN (voices # <<>> /\ ~wrapper.sustainPedalActive /\ ~main.sustainPedalActive) =>
        /\ wrapper.noteEnvelopes[noteName] # NoEntry
        /\ voicesOf(r.W, noteName) = SubSeq(voices, 1, Len(voices) - 1)
        /\ r.issued = <<SynthCall("noteOff", voice.noteId, releaseTime, FALSE, FALSE)>>
        /\ r.S = noteOff(Cur, voice.noteId, releaseTime, FALSE, now)
        /\ IF Len(voices) = 1
           THEN /\ r.W.activeVoices[noteName] = NoEntry
                /\ r.W.noteEnvelopes[noteName] = NoEntry
                /\ [r.W EXCEPT !.noteEnvelopes[noteName] = wrapper.noteEnvelopes[noteName],
                               !.activeVoices[noteName] = wrapper.activeVoices[noteName]]
                   = wrapper
           ELSE /\ r.W.activeVoices[noteName] # NoEntry
                /\ OtherVoices(r.W, noteName) = OtherVoices(wrapper, noteName)

\* with the pedal down, triggerRelease issues no noteOff and removes no voice;
\* in the wrapper it sets keyDown = false on the most recent voice only
PedalDownKeepsVoice(noteName) ==
    LET voices == voicesOf(wrapper, noteName)
        r == ReleaseNow(noteName)
    IN (voices # <<>> /\ (wrapper.sustainPedalActive \/ main.sustainPedalActive)) =>
        /\ ~NoteOffIssued(r.issued, voices[Len(voices)].noteId)
        /\ \A k \in 1 .. Len(r.issued) : r.issued[k].op # "noteOff"
        /\ voicesOf(r.W, noteName) = [voices EXCEPT ![Len(voices)].keyDown = FALSE]
        /\ OtherVoices(r.W, noteName) = OtherVoices(wrapper, noteName)

\* C30 as stated, the pedal-down case: in the synth too, triggerRelease only
\* sets keyDown = false on the most recent voice of the note
C30_OnlyKeyDown ==
    \A noteName \in MidiNotes :
        LET voices == voicesOf(wrapper, noteName)
            noteId == voices[Len(voices)].noteId
        IN (voices # <<>> /\ (wrapper.sustainPedalActive \/ main.sustainPedalActive)) =>
            /\ PedalDownKeepsVoice(noteName)
            /\ ReleaseNow(noteName).S =
                  IF activeNotes[noteId] = NoNote THEN Cur
                  ELSE [Cur EXCEPT !.activeNotes[noteId].keyDown = FALSE]

\* C30: triggerRelease(note) with the pedal down issues no noteOff and removes
\* no voice: it sets keyDown = false on the most recent voice of the note in
\* the wrapper and, in the synth, keyDown = false and pedalDown = true on that
\* voice if the synth still has it, and changes nothing else; with the pedal up
\* it removes the most recent voice from the tracking, issues noteOff for it
\* with the release time of the note, and deletes the entry of the note once no
\* voice remains; with no tracked voice for the note it does nothing.
C30_TriggerRelease ==
    \A noteName \in MidiNotes :
        LET voices == voicesOf(wrapper, noteName)
            noteId == voices[Len(voices)].noteId
        IN /\ NothingWithoutVoice(noteName)
           /\ PedalUpRelease(noteName)
           /\ PedalDownKeepsVoice(noteName)
           /\ (voices # <<>> /\ (wrapper.sustainPedalActive \/ main.sustainPedalActive)) =>
                 ReleaseNow(noteName).S =
                    IF activeNotes[noteId] = NoNote THEN Cur
                    ELSE [Cur EXCEPT !.activeNotes[noteId].keyDown = FALSE,
                                     !.activeNotes[noteId].pedalDown = TRUE]

\* the sustain-decay timer has called triggerRelease with the pedal down for a
\* note whose voice was attacked with the pedal up: the voice is still
\* tracked, with the key up in the wrapper and the pedal down in the synth only
C30_Witness ==
    /\ last.op = "sustainDecayTimeout"
    /\ main.sustainPedalActive
    /\ issued # <<>>
    /\ issued[1].op = "updateNoteState"
    /\ \E v \in Range(voicesOf(wrapper, last.id)) :
          /\ v.noteId = issued[1].noteId
          /\ ~v.keyDown
          /\ ~v.pedalDown
          /\ activeNotes[v.noteId] # NoNote
          /\ ~activeNotes[v.noteId].keyDown
          /\ activeNotes[v.noteId].pedalDown

\* ----------------------------------- the keys, the pedal and the 'R' shortcut
KeysCalls == 5             \* calls of the handlers in a run of KeysSpec
ShortReleases == {50}      \* the release of the envelope settings in KeysSpec

\* automation.cancel() for every automation of the Map, then the Map is cleared
RECURSIVE cancelAll(_, _, _, _, _)
cancelAll(M, W, S, midiNotes, t) ==
    IF midiNotes = {} THEN [M |-> M, S |-> S]
    ELSE LET midiNote == CHOOSE n \in midiNotes : \A m \in midiNotes : n <= m
             c == cancelAutomation(M, W, S, midiNote, t)
         IN cancelAll([c.M EXCEPT !.sustainDecayAutomations[midiNote] = NoEntry],
                      W, c.S, midiNotes \ {midiNote}, t)

\* activeNotes.forEach((noteName, midiNote) => synth.triggerRelease(noteName));
\* the notes have separate voices, so they are taken in ascending order
RECURSIVE releaseEach(_, _, _, _, _)
releaseEach(W, S, midiNotes, windowPedal, t) ==
    IF midiNotes = {} THEN [W |-> W, S |-> S, issued |-> <<>>]
    ELSE LET midiNote == CHOOSE n \in midiNotes : \A m \in midiNotes : n <= m
             r == triggerRelease(W, S, midiNote, windowPedal, t)
             rest == releaseEach(r.W, r.S, midiNotes \ {midiNote}, windowPedal, t)
         IN [rest EXCEPT !.issued = r.issued \o rest.issued]

\* releaseAllNotes()
releaseAllNotes(M, W, S, t) ==
    LET c == cancelAll(M, W, S, MidiNotes, t)
        r == releaseEach(W, c.S, M.activeNotes, M.sustainPedalActive, t)
    IN [M |-> [c.M EXCEPT !.activeNotes = {},
                          !.physicallyHeldNotes = {},
                          !.sustainedNotes = <<>>],
        W |-> r.W,
        S |-> r.S,
        issued |-> r.issued]

\* the handlers are called at most KeysCalls times, at multiples of CallPeriod
KeysCanCall ==
    /\ calls < KeysCalls
    /\ now % CallPeriod = 0

\* a key that is up is pressed
KeyPressed(midiNote, envelopeRelease) ==
    /\ KeysCanCall
    /\ midiNote \notin main.physicallyHeldNotes
    /\ wrapper.noteIdCounter < MaxNoteId
    /\ Handled(handleNoteOn(main, wrapper, Cur, midiNote, envelopeRelease, now),
               "handleNoteOn", midiNote)

\* a key that is down is released
KeyReleased(midiNote) ==
    /\ KeysCanCall
    /\ midiNote \in main.physicallyHeldNotes
    /\ Handled(handleNoteOff(main, wrapper, Cur, midiNote, now), "handleNoteOff", midiNote)

\* a controller 64 message arrives
PedalMoved(isNowActive) ==
    /\ KeysCanCall
    /\ Handled(handleControlChange(main, wrapper, Cur, isNowActive, now),
               "handleControlChange", Null)

\* the 'R' key is pressed while notes are tracked
AllNotesReleased ==
    /\ KeysCanCall
    /\ main.activeNotes # {}
    /\ Handled(releaseAllNotes(main, wrapper, Cur, now), "releaseAllNotes", Null)

KeysDeadlines ==
    {nextTick}
    \cup (IF calls < KeysCalls THEN {(now \div CallPeriod + 1) * CallPeriod} ELSE {})
    \cup CleanupDues
    \cup {Head(releaseTimers[i]) : i \in {x \in DOMAIN releaseTimers : releaseTimers[x] # <<>>}}
    \cup {main.releaseTimeouts[k].due : k \in 1 .. Len(main.releaseTimeouts)}

\* time passes until the next timer is due
KeysAdvance ==
    /\ \A d \in KeysDeadlines : d > now
    /\ \E d \in KeysDeadlines :
          /\ \A e \in KeysDeadlines : d <= e
          /\ d <= MaxTime
          /\ now' = d
    /\ last' = Op("advance", Null, {})
    /\ UNCHANGED <<otherVars, profileVars, selection, inUse, available, gain, activeNotes,
                   noteOrder, pendingCleanups, cleanupTimers, releaseTimers, nextTick, calls, highest,
                   reused, released, probe>>

KeysNext ==
    \/ \E midiNote \in MidiNotes, envelopeRelease \in ShortReleases :
          KeyPressed(midiNote, envelopeRelease)
    \/ \E midiNote \in MidiNotes : KeyReleased(midiNote)
    \/ \E isNowActive \in BOOLEAN : PedalMoved(isNowActive)
    \/ AllNotesReleased
    \/ \E midiNote \in MidiNotes : SustainDecayTimeout(midiNote)
    \/ Tick
    \/ \E noteId \in NoteIds : NoteOffTimeout(noteId)
    \/ \E noteId \in NoteIds : DecayTimeout(noteId)
    \/ \E partial \in Partials : LimitDisconnectTimeout(partial)
    \/ KeysAdvance

KeysSpec == Init /\ [][KeysNext]_vars

\* --------------------------------- C31: the pedal comes up
\* handleControlChange(64, value) called now
PedalMessage(isNowActive) == handleControlChange(main, wrapper, Cur, isNowActive, now)

\* the noteOff that releases the most recent voice of midiNote
ReleaseCall(midiNote) ==
    LET voices == voicesOf(wrapper, midiNote)
    IN SynthCall("noteOff", voices[Len(voices)].noteId,
                 wrapper.noteEnvelopes[midiNote].release, FALSE, FALSE)

\* C31: when controller 64 takes the pedal from down to up, handleControlChange
\* releases exactly the notes of sustainedNotes (one noteOff each, for the most
\* recent voice, after the cancel of the note's sustain-decay automation) and
\* removes them from activeNotes and sustainedNotes, which is empty afterwards;
\* the notes of physicallyHeldNotes are not released; a controller 64 message
\* that is not a down-to-up transition releases nothing.
C31_PedalUpReleasesSustained ==
    \A isNowActive \in BOOLEAN :
        LET r == PedalMessage(isNowActive)
            sustained == main.sustainedNotes
        IN IF main.sustainPedalActive /\ ~isNowActive
           THEN /\ r.M.sustainedNotes = <<>>
                /\ r.M.activeNotes = main.activeNotes \ Range(sustained)
                /\ r.M.physicallyHeldNotes = main.physicallyHeldNotes
                /\ Len(r.issued) = Len(sustained)
                /\ \A k \in 1 .. Len(sustained) :
                      /\ voicesOf(wrapper, sustained[k]) # <<>>
                      /\ r.issued[k] = ReleaseCall(sustained[k])
                      /\ Len(voicesOf(r.W, sustained[k]))
                            = Len(voicesOf(wrapper, sustained[k])) - 1
                      /\ r.M.sustainDecayAutomations[sustained[k]] = NoEntry
                      /\ \A j \in 1 .. Len(r.M.releaseTimeouts) :
                            r.M.releaseTimeouts[j].midiNote # sustained[k]
                /\ \A midiNote \in MidiNotes \ Range(sustained) :
                      /\ r.W.activeVoices[midiNote] = wrapper.activeVoices[midiNote]
                      /\ r.M.sustainDecayAutomations[midiNote]
                            = main.sustainDecayAutomations[midiNote]
                /\ \A midiNote \in main.physicallyHeldNotes :
                      /\ midiNote \notin Range(sustained)
                      /\ midiNote \in r.M.activeNotes
           ELSE /\ r.issued = <<>>
                /\ r.W = wrapper
                /\ r.S = Cur
                /\ r.M = [main EXCEPT !.sustainPedalActive = isNowActive]

\* the pedal has just come up while one key was held and another note was
\* sustained: the sustained note got its noteOff, the held one is still tracked
C31_Witness ==
    /\ last.op = "handleControlChange"
    /\ ~main.sustainPedalActive
    /\ main.physicallyHeldNotes # {}
    /\ main.physicallyHeldNotes = main.activeNotes
    /\ main.sustainedNotes = <<>>
    /\ Len(issued) = 1
    /\ issued[1].op = "noteOff"
    /\ \A midiNote \in main.physicallyHeldNotes :
          \A k \in 1 .. Len(voicesOf(wrapper, midiNote)) :
             voicesOf(wrapper, midiNote)[k].noteId # issued[1].noteId

\* ------------------------------- C32: one sustain-decay timer per note
\* the positions of the live releaseTimeout timers of midiNote
LiveTimeouts(M, midiNote) ==
    {k \in 1 .. Len(M.releaseTimeouts) : M.releaseTimeouts[k].midiNote = midiNote}

\* C32: for each MIDI note at most one sustain-decay release timer is live, and
\* it is the timer of the automation that the Map holds for the note, so that
\* every cancel() reaches it: after the cancel of the note's automation no timer
\* of the note is live (none can fire a release), and after startSustainDecay
\* the only live timer of the note is the new one.
C32_OneLiveTimer ==
    \A midiNote \in MidiNotes :
        LET cancelled == cancelAutomation(main, wrapper, Cur, midiNote, now).M
            started == startSustainDecay(main, wrapper, Cur, midiNote, now).M
        IN /\ Cardinality(LiveTimeouts(main, midiNote)) <= 1
           /\ \A k \in LiveTimeouts(main, midiNote) :
                 /\ main.sustainDecayAutomations[midiNote] # NoEntry
                 /\ main.releaseTimeouts[k] = timeoutOf(main, midiNote)
           /\ LiveTimeouts(cancelled, midiNote) = {}
           /\ Cardinality(LiveTimeouts(started, midiNote)) = 1
           /\ \A k \in LiveTimeouts(started, midiNote) :
                 started.releaseTimeouts[k]
                    = Timeout(midiNote, now, now + SustainDecayTime - releaseLead)

\* the pedal has come up at time 0 with a sustained note whose timer was live
\* (due at 200 ms): the note was released and no timer is left
C32_Witness ==
    /\ last.op = "handleControlChange"
    /\ now = 0
    /\ ~main.sustainPedalActive
    /\ issued # <<>>
    /\ issued[1].op = "noteOff"
    /\ main.releaseTimeouts = <<>>
    /\ \A midiNote \in MidiNotes : main.sustainDecayAutomations[midiNote] = NoEntry


\* ------------------------------------ C33: pending cleanups and their timers
\* C33: every id with an entry in pendingCleanups is an active voice id, at most
\* one cleanup timer is live per id, and the live timer of an id is the one
\* that pendingCleanups holds for it (so that the next noteOff or cleanupNote
\* cancels it); cleanupNote on any id leaves neither an entry nor a live timer
\* nor a voice for the id.
C33_PendingCleanupsActive ==
    \A id \in NoteIds :
        LET cleaned == cleanupNote(Cur, id, now)
        IN /\ pendingCleanups[id] # NoTimer => activeNotes[id] # NoNote
           /\ Len(cleanupTimers[id]) <= 1
           /\ cleanupTimers[id] = IF pendingCleanups[id] = NoTimer THEN <<>>
                                  ELSE <<pendingCleanups[id]>>
           /\ cleaned.activeNotes[id] = NoNote
           /\ cleaned.pendingCleanups[id] = NoTimer
           /\ cleaned.cleanupTimers[id] = <<>>

\* the scheduler's tick has found a decayed voice whose cleanup timer of noteOff
\* is still live, and has left that timer as the only one
C33_Witness ==
    /\ last.op = "tick"
    /\ \E id \in NoteIds :
          /\ activeNotes[id] # NoNote
          /\ decayed(Cur, activeNotes[id], now)
          /\ pendingCleanups[id] # NoTimer
          /\ pendingCleanups[id].kind = "noteOff"
          /\ cleanupTimers[id] = <<pendingCleanups[id]>>

\* --------------------------------- C34: counted partials and partials in use
\* the number of pool partials with inUse = true
InUseCount(S) == Cardinality({i \in DOMAIN S.inUse : S.inUse[i]})

\* C34: getActivePartialCount() is at most the number of pool partials in use;
\* while noteOn has never been called with an id that had a voice, the two are
\* equal whenever no 15 ms release timer of cleanupNote is outstanding.
C34_PartialCount ==
    /\ getActivePartialCount(Cur) <= InUseCount(Cur)
    /\ (~reused /\ \A i \in Partials : releaseTimers[i] = <<>>) =>
           getActivePartialCount(Cur) = InUseCount(Cur)

\* a disconnect timer has just handed back the last partial of a cleaned-up
\* voice while another voice still holds partials: the counts agree
C34_Witness ==
    /\ last.op = "disconnectTimeout"
    /\ ~reused
    /\ \A i \in Partials : releaseTimers[i] = <<>>
    /\ InUseCount(Cur) > 0
    /\ getActivePartialCount(Cur) = InUseCount(Cur)

\* ------------------------------------------- C35: a voice without partials
\* the callers play up to MaxCalls notes at time 0 on the pool of PoolSize
\* partials and then leave the synth alone (StarveSpec)
StarveNoteOn(noteId, candidates, keyDown, pedalDown) ==
    /\ calls < MaxCalls
    /\ now = 0
    /\ noteId <= highest + 1
    /\ NoteOnCall(noteId, candidates, 100, keyDown, pedalDown)
    /\ UNCHANGED <<stealVars, wrapperVars>>

StarveAdvance ==
    /\ \A d \in HoldDeadlines : d > now
    /\ \E d \in HoldDeadlines :
          /\ \A e \in HoldDeadlines : d <= e
          /\ d <= MaxTime
          /\ now' = d
    /\ last' = Op("advance", Null, {})
    /\ UNCHANGED <<otherVars, profileVars, selection, inUse, available, gain, activeNotes,
                   noteOrder, pendingCleanups, cleanupTimers, releaseTimers, nextTick, calls,
                   highest, reused, released, probe>>

StarveNext ==
    \/ \E noteId \in NoteIds, candidates \in CandidateCounts, ks \in KeyStates :
          StarveNoteOn(noteId, candidates, ks[1], ks[2])
    \/ Tick
    \/ \E noteId \in NoteIds : NoteOffTimeout(noteId)
    \/ \E noteId \in NoteIds : DecayTimeout(noteId)
    \/ \E partial \in Partials : LimitDisconnectTimeout(partial)
    \/ StarveAdvance

StarveSpec == Init /\ [][StarveNext]_vars

\* the interval timer and the timeouts fire when they are due, and time
\* passes; nothing obliges the callers to call
StarveFairSpec ==
    /\ StarveSpec
    /\ WF_nextTick(TickFires)
    /\ WF_vars(\E noteId \in NoteIds : NoteOffTimeout(noteId))
    /\ WF_vars(\E noteId \in NoteIds : DecayTimeout(noteId))
    /\ WF_vars(\E partial \in Partials : LimitDisconnectTimeout(partial))
    /\ WF_vars(StarveAdvance)

\* id has a voice that was registered with no partial at all
EmptyVoice(id) == activeNotes[id] # NoNote /\ activeNotes[id].partials = <<>>

\* C35: a voice registered with zero partials does not stay active for ever.
\* The tick that finds it older than 0.5 s takes it for silent (a cleanup is
\* pending for it afterwards), the deferred check destroys it, and with the
\* timers running every such voice is eventually gone, with no noteOff from
\* the callers.
C35_EmptyVoiceReclaimed ==
    /\ [](\A id \in NoteIds :
            (EmptyVoice(id) /\ last.op = "tick" /\ now - activeNotes[id].startTime > minElapsed)
               => pendingCleanups[id] # NoTimer)
    /\ [](\A id \in NoteIds :
            EmptyVoice(id) => decayTimeout(Cur, id, now).activeNotes[id] = NoNote)
    /\ \A id \in NoteIds : EmptyVoice(id) ~> (activeNotes[id] = NoNote)

\* the deferred check of the scheduler has just destroyed a voice that had no
\* partial and that no noteOff was pending for
C35_Witness ==
    /\ last.op = "decayTimeout"
    /\ last.parts = {}
    /\ activeNotes[last.id] = NoNote
    /\ now > minElapsed + decayCheckDelay
    /\ calls > 1

\* ------------------------------------------- C36: noteOff again, cleanup once
\* the cleanup timer that noteOff(id, releaseTime, false) starts at time t
CleanupTimer(releaseTime, t) == [kind |-> "noteOff", due |-> t + releaseTime + cleanupGrace]

\* the synth after construction, as a record
FreshSynth ==
    [inUse |-> [i \in Partials |-> FALSE],
     available |-> [i \in 1 .. PoolSize |-> i - 1],
     gain |-> [i \in Partials |-> ParamReset(0)],
     activeNotes |-> [id \in NoteIds |-> NoNote],
     noteOrder |-> <<>>,
     pendingCleanups |-> [id \in NoteIds |-> NoTimer],
     cleanupTimers |-> [id \in NoteIds |-> <<>>],
     releaseTimers |-> [i \in Partials |-> <<>>]]

\* noteOff(id, r, false) on a voice whose cleanup is pending leaves the new
\* timer as the only live one, and the voice and its partials as they were
SecondNoteOffReplaces(id) ==
    pendingCleanups[id] # NoTimer =>
        \A releaseTime \in ReleaseTimes :
            LET S == noteOff(Cur, id, releaseTime, FALSE, now)
            IN /\ S.cleanupTimers[id] = <<CleanupTimer(releaseTime, now)>>
               /\ S.pendingCleanups[id] = CleanupTimer(releaseTime, now)
               /\ S.activeNotes[id] # NoNote
               /\ S.activeNotes[id].partials = activeNotes[id].partials
               /\ S.releaseTimers = releaseTimers
               /\ S.inUse = inUse /\ S.available = available

\* a partial waits for at most one release, and then it is in use, not on the
\* free list and in no voice; the free list holds no index twice
ReleasedOnce(i) ==
    /\ Len(releaseTimers[i]) <= 1
    /\ releaseTimers[i] # <<>> =>
          /\ inUse[i]
          /\ i \notin Range(available)
          /\ \A id \in NoteIds : i \notin PartsOf(Cur, id)
    /\ Cardinality({k \in 1 .. Len(available) : available[k] = i}) <= 1

\* a step in which the voice of id is destroyed starts the one release timer
\* of each of its partials, and release timers start in no other step
CleanupStep ==
    /\ \A id \in NoteIds :
          (activeNotes[id] # NoNote /\ activeNotes'[id] = NoNote) =>
              \A i \in PartsOf(Cur, id) :
                  releaseTimers[i] = <<>> /\ releaseTimers'[i] = <<now + disconnectDelay>>
    /\ \A i \in Partials :
          Len(releaseTimers'[i]) > Len(releaseTimers[i]) =>
              \E id \in NoteIds :
                  /\ activeNotes[id] # NoNote /\ activeNotes'[id] = NoNote
                  /\ i \in PartsOf(Cur, id)

\* C36: noteOff(id, r, false) again on a voice whose cleanup is pending cancels
\* the earlier timer and schedules a new one, so that cleanupNote takes effect
\* at most once per voice instance and each partial of the voice is released to
\* the pool exactly once; cleanupNote on an id that is not active changes
\* nothing.
C36_CleanupOnce ==
    /\ [](\A id \in NoteIds :
            /\ SecondNoteOffReplaces(id)
            /\ activeNotes[id] = NoNote => cleanupNote(Cur, id, now) = Cur)
    /\ [](\A i \in Partials : ReleasedOnce(i))
    /\ [][CleanupStep]_vars

\* noteOn(1) and noteOff(1, 500 ms) at time 0, noteOff(1, 50 ms) at 200 ms, with
\* the first cleanup timer (due at 600 ms) still pending: one timer, due at 350 ms
C36_Witness ==
    /\ last.op = "noteOff"
    /\ last.id = 1
    /\ now = CallPeriod
    /\ \E candidates \in CandidateCounts, ks \in KeyStates :
          LET S1 == noteOn(FreshSynth, 1, candidates, 100, ks[1], ks[2], 0).S
              S2 == noteOff(S1, 1, 500, FALSE, 0)
          IN /\ S2.cleanupTimers[1] = <<CleanupTimer(500, 0)>>
             /\ Cur = noteOff(S2, 1, 50, FALSE, now)
    /\ cleanupTimers[1] = <<CleanupTimer(50, now)>>

\* ------------------------------------------------- C37: fresh note ids
\* the note ids of the voices that the wrapper tracks under noteName
idsOf(W, noteName) ==
    {voicesOf(W, noteName)[k].noteId : k \in 1 .. Len(voicesOf(W, noteName))}

TrackedIds(W) == UNION {idsOf(W, noteName) : noteName \in MidiNotes}

\* the ids in use are those the counter has handed out, no two tracked voices
\* share one, and the next attack of any note gets the next id, which no voice
\* has, and is tracked as one more voice of its name
FreshIds ==
    /\ ActiveIds(Cur) \subseteq 1 .. wrapper.noteIdCounter
    /\ TrackedIds(wrapper) \subseteq 1 .. wrapper.noteIdCounter
    /\ \A noteName \in MidiNotes :
          /\ Cardinality(idsOf(wrapper, noteName)) = Len(voicesOf(wrapper, noteName))
          /\ \A other \in MidiNotes \ {noteName} :
                idsOf(wrapper, noteName) \cap idsOf(wrapper, other) = {}
    /\ wrapper.noteIdCounter < MaxNoteId =>
          \A noteName \in MidiNotes, windowPedal \in BOOLEAN :
              LET r == triggerAttack(wrapper, Cur, noteName, windowPedal, now)
                  voices == voicesOf(r.W, noteName)
                  noteId == wrapper.noteIdCounter + 1
              IN /\ r.W.noteIdCounter = noteId
                 /\ Len(r.issued) = 1 /\ r.issued[1].op = "noteOn"
                 /\ r.issued[1].noteId = noteId
                 /\ activeNotes[noteId] = NoNote
                 /\ noteId \notin TrackedIds(wrapper)
                 /\ SubSeq(voices, 1, Len(voices) - 1) = voicesOf(wrapper, noteName)
                 /\ voices[Len(voices)].noteId = noteId
                 /\ \A other \in MidiNotes \ {noteName} :
                       voicesOf(r.W, other) = voicesOf(wrapper, other)

\* the counter never goes back, a voice appears in the synth only under the id
\* that the counter hands out in that step, and no step replaces a voice by
\* another one under the same id
FreshIdStep ==
    /\ wrapper'.noteIdCounter >= wrapper.noteIdCounter
    /\ \A id \in NoteIds :
          /\ (activeNotes[id] = NoNote /\ activeNotes'[id] # NoNote) =>
                /\ id = wrapper.noteIdCounter + 1
                /\ wrapper'.noteIdCounter = id
          /\ (activeNotes[id] # NoNote /\ activeNotes'[id] # NoNote) =>
                /\ activeNotes'[id].startTime = activeNotes[id].startTime
                /\ activeNotes'[id].partials = activeNotes[id].partials

\* C37: PolySynthWrapper gives every triggerAttack a fresh note id from a
\* strictly increasing counter: through the wrapper noteOn is never called with
\* an id that is active or was used before, and two attacks of the same note
\* name are tracked as two voices of that name.
C37_FreshNoteIds == []FreshIds /\ [][FreshIdStep]_vars

\* a sustained note has been struck again: the wrapper tracks two voices of its
\* name, with different ids, both active in the synth
C37_Witness ==
    /\ last.op = "handleNoteOn"
    /\ Len(voicesOf(wrapper, last.id)) = 2
    /\ voicesOf(wrapper, last.id)[1].noteId < voicesOf(wrapper, last.id)[2].noteId
    /\ \A k \in 1 .. 2 : activeNotes[voicesOf(wrapper, last.id)[k].noteId] # NoNote
    /\ voicesOf(wrapper, last.id)[2].noteId = wrapper.noteIdCounter

\* ------------------------------------- C38: tracked voices and synth voices
\* C38: every voice tracked in PolySynthWrapper.activeVoices is a voice that is
\* still active in the synth; a voice that the synth reclaims on its own (voice
\* stealing, the scheduler's decay cleanup) leaves activeVoices as well.
C38_TrackedVoicesActive ==
    \A id \in TrackedIds(wrapper) : activeNotes[id] # NoNote

====
